---- MODULE Spec2Model ----
(***************************************************************************)
(* The streaming chat core of kidandcat/nojs: ChatDemo's message log,      *)
(* identity caches, subscriber registry (streamClients), the asynchronous  *)
(* broadcastMessage goroutines and the per-connection pump                 *)
(* messagesStreamHandler writing through a StreamWriter; and the ChatRoom  *)
(* of the example program (src/errors.go), a second, separate program with *)
(* its own log, counter and subscribers.                                   *)
(*                                                                         *)
(* Each goroutine is a process with a program counter; one action is one   *)
(* atomic step of it (a lock operation, a channel operation, a stream      *)
(* write).  Stream writes touch only the connection of the writing pump,   *)
(* so a receive and the write of the received fragment are one step.       *)
(***************************************************************************)
EXTENDS Integers, Sequences, FiniteSets, TLC

\* ---------------------------------------------------------------- bounds
MaxMsgs == 3         \* Spec: accepted submissions
MaxPending == 2      \* Spec: broadcasts started and not yet finished
MaxKeepAlive == 1    \* Spec: keep-alive timer firings per pump
MaxMsgsFair == 2     \* FairSpec: accepted submissions
MaxMsgsPair == 2     \* SpecPair: accepted submissions
MaxExtra == 2        \* SpecFull: submissions beyond the channel capacity
MaxConnLog == 0      \* SpecFull: the longest log a pump connects to
MaxRecvFull == 1     \* SpecFull: live fragments a pump takes from its channel
MaxMsgsStore == 2    \* SpecStore: accepted submissions to ChatDemo
MaxClock == 1        \* SpecStore: the clock readings are 0..MaxClock
MaxRoomExtra == 2    \* SpecStore: ChatRoom messages beyond the retained 50
MaxChans == 2        \* SpecStore: channels ChatRoom.Subscribe creates
MaxSubLog == 1       \* SpecStore: the longest ChatRoom log a subscriber joins
MaxRepeat == 2       \* SpecIdent: submissions by a key that was seen before
MaxRace == 3         \* SpecIdent: submissions that may overlap with another
MaxCalls == 3        \* SpecWriter: calls made on one StreamWriter
MaxMsgsCast == 2     \* SpecCast: messages sent
MaxGate == 2         \* SpecGate: messages accepted by each endpoint
MaxRoomLog == 2      \* SpecRoom: messages added to the room
MaxSseCasts == 2     \* SpecSse: broadcasts started
MaxPollLog == 2      \* SpecPoll: messages sent
MaxLockLog == 1      \* SpecLocks: messages sent to ChatDemo
MaxRateClock == 2    \* SpecRate: the clock readings are 0..MaxRateClock
RateRequests == 2    \* SpecRate: RateLimit's parameter requests
RateDuration == 1    \* SpecRate: RateLimit's parameter duration, in clock ticks
CleanupAbove == 1000 \* RateLimit: map size above which old entries are deleted

\* ------------------------------------------------------ program constants
ChanCap == 10        \* make(chan Message, 10)
NumColors == 8       \* len(c.colors)
RetainLast == 50     \* ChatRoom.GetMessages: "Return last 50 messages"

Pumps == {"A", "B"}   \* streaming connections (one pump, one msgChan each)
Solo == {"A"}         \* Spec: the connection that is followed in detail
Senders == {"s1", "s2"}  \* concurrently running sendMessageHandler requests
Single == {"s1"}      \* Spec, SpecPair, SpecFull: one request at a time
Users == {"alice", "bob", "carol", "dave", "erin", "frank", "grace", "heidi",
          "ivan"}     \* user keys (username:session)
Authors == {"alice"}  \* Spec, SpecPair, SpecFull: the keys that submit
HashVals == {7}       \* Spec, SpecPair, SpecFull: time.Now().UnixNano()%10000
\* fmt.Sprintf("sub-%d", t): the subscriber id made from clock reading t.
SubscriberID(t) == <<"sub-", t>>
RoomIds == {SubscriberID(t) : t \in 0..MaxClock}   \* ChatRoom subscriber ids
SubIds == {SubscriberID(0)}
Conns == {"k1", "k2"}   \* connections to ChatRoom's stream endpoint
SseConns == {"e1", "e2"}   \* connections to the SSE demo's /events
PollConns == {"h1", "h2"}  \* connections to the polling demo's stream
RateReqs == {"q1", "q2", "q3"}  \* requests that pass through RateLimit
RateAddrs == {"a", "b"}    \* their RemoteAddr values
NoVisitor == [present |-> FALSE, count |-> 0, lastSeen |-> 0]  \* no map entry

VARIABLES
    messages,       \* c.messages: the log, a sequence of Message
    colorMap,       \* c.colorMap: user key -> color index, 0 = absent
    userHashes,     \* c.userHashes: user key -> tag, -1 = absent
    streamClients,  \* c.streamClients: the set of registered channels (by pump)
    queue,          \* the buffer of each pump's msgChan
    closed,         \* whether each pump's msgChan has been closed
    mu,             \* c.mu (RWMutex): [w: set of writers, r: set of readers]
    streamMu,       \* c.streamMu: the set of its holders (empty or one)
    spc,            \* sendMessageHandler: position of each request
    sreq,           \* sendMessageHandler: [key, hash] of the request in progress
    pending,        \* go broadcastMessage(msg) started, lock not yet taken
    bcast,          \* the broadcast holding streamMu: [msg, todo] (range loop)
    ppc,            \* messagesStreamHandler: position of each pump
    cancelled,      \* ctx.Request.Context().Done() is closed, per pump
    snap,           \* the slice the snapshot loop ranges over, per pump
    idx,            \* next index of the snapshot loop, per pump
    writes,         \* history: the writes each pump attempted on its stream
    reg,            \* history: registrations of a channel, per pump
    unreg,          \* history: runs of the deferred cleanup, per pump
    ret,            \* what the handler returned: "" (running), "nil", "err"
    sendLog,        \* history: messages enqueued on each channel, in order
    dropped,        \* history: <<pump, seq>> dropped by a full-queue default
    kaCount,        \* keep-alive timer firings so far, per pump
    panicked,       \* a send on a closed channel or a double close happened
    colorMu,        \* c.colorMu: the set of its holders (empty or one)
    resp,           \* the response to each request's last call: "", "redirect"
    subAt,          \* history: <<seq, pump>> registered with room at the append
    flusher,        \* history: "" or what ctx.Stream() found, per pump:
                    \* [enabled, flush] (the config flag, the http.Flusher test)
    streamingEnabled,  \* server.config.StreamingEnabled
    clock,          \* the value time.Now().UnixNano() returns now
    crMessages,     \* ChatRoom.messages
    crNextID,       \* ChatRoom.nextID
    crSubscribers,  \* ChatRoom.subscribers: id -> channel number, 0 = absent
    crChans,        \* the number of channels Subscribe has made
    crQueue,        \* the buffer of each ChatRoom channel
    crClosed,       \* the ChatRoom channels that have been closed
    crView,         \* the slice the last GetMessages returned
    crResp,         \* handleChatSend's last request and its response code:
                    \* "", "redirect", "405"
    crPanicked,     \* a ChatRoom send on a closed channel or a double close
    cpc,            \* handleChatStream: position of each connection
    cid,            \* handleChatStream: subscriberID of each connection
    cchan,          \* handleChatStream: msgChan of each connection, 0 = none
    crViewMeta,     \* of the slice in crView: whether it shares the log's
                    \* array, the log index before its first element, and
                    \* history: the indices its holder has overwritten
    sseClients,     \* SSE demo: the keys of the map sseClients
    sseMu,          \* SSE demo: sseMu, the set of its holders
    sseCast,        \* SSE demo: the running broadcastMessage, [run, todo]
    ssePc,          \* sseHandler: position of each connection
    sseCloses,      \* history: close(client) calls made on each channel
    sseZero,        \* history: the connection received from its closed channel
    sseCount,       \* history: broadcastMessage goroutines started
    pollLog,        \* polling demo: messages (the ids, in append order)
    pollMu,         \* polling demo: mu, [w: BOOLEAN, r: RLocks held per handler]
    poll,           \* chatStreamHandler: pc, i, currentCount, messagesSent,
                    \* initialCount and return value of each connection
    pollOut,        \* history: the message writes of each connection, [seq, ok]
    visitors,       \* RateLimit: the map, address -> [present, count, lastSeen]
    rl              \* RateLimit: each request's address, pc, now, the count it
                    \* loaded, its response, and whether next was called

vars == <<messages, colorMap, userHashes, streamClients, queue, closed, mu,
          streamMu, spc, sreq, pending, bcast, ppc, cancelled, snap, idx,
          writes, reg, unreg, ret, sendLog, dropped, kaCount, panicked,
          colorMu, resp, subAt, flusher, streamingEnabled, clock,
          crMessages, crNextID, crSubscribers, crChans, crQueue, crClosed,
          crView, crResp, crPanicked, cpc, cid, cchan, crViewMeta,
          sseClients, sseMu, sseCast, ssePc, sseCloses, sseZero, sseCount,
          pollLog, pollMu, poll, pollOut, visitors, rl>>

storeVars == <<messages, colorMap, userHashes>>
sendVars == <<spc, sreq, colorMu, resp, subAt>>
pumpLocal == <<snap, idx, kaCount, flusher>>

\* The state of the ChatRoom program.
roomVars == <<crMessages, crNextID, crSubscribers, crChans, crQueue, crClosed,
              crView, crResp, crPanicked>>

\* The locals of ChatRoom's stream connections.
connVars == <<cpc, cid, cchan>>

\* The state of the programs other than ChatDemo and ChatRoom's store.
\* The state of the SSE demo (src/demo/main.go).
sseVars == <<sseClients, sseMu, sseCast, ssePc, sseCloses, sseZero, sseCount>>

\* The state of the polling demo (src/unnamed/part_004).
pollVars == <<pollLog, pollMu, poll, pollOut>>

\* The state of the RateLimit middleware (src/landing/main.go).
rateVars == <<visitors, rl>>

extVars == <<connVars, crViewMeta, sseVars, pollVars, rateVars>>

\* The state of the ChatDemo program.
demoVars == <<messages, colorMap, userHashes, streamClients, queue, closed, mu,
              streamMu, spc, sreq, pending, bcast, ppc, cancelled, snap, idx,
              writes, reg, unreg, ret, sendLog, dropped, kaCount, panicked,
              colorMu, resp, subAt, flusher>>

\* What no handler of ChatDemo writes: the server configuration, the clock
\* and the other program.
otherVars == <<streamingEnabled, clock, roomVars, extVars>>

NoBcast == [msg |-> 0, todo |-> {}]
NoReq == [req |-> [method |-> "", user |-> "", text |-> ""], hash |-> 0, id |-> 0]

\* One attempted write on a pump's stream.
W(kind, seq, ok) == [kind |-> kind, seq |-> seq, ok |-> ok]

\* NoCaps: ctx.Stream() has not been called on the connection.
NoCaps == [enabled |-> FALSE, flush |-> FALSE, called |-> FALSE]

\* The state after construction, for a server configuration that has
\* streaming enabled or disabled.
InitCfg ==
    /\ streamingEnabled \in BOOLEAN
    /\ messages = <<>>
    /\ colorMap = [u \in Users |-> 0]
    /\ userHashes = [u \in Users |-> -1]
    /\ streamClients = {}
    /\ queue = [p \in Pumps |-> <<>>]
    /\ closed = [p \in Pumps |-> FALSE]
    /\ mu = [w |-> {}, r |-> {}]
    /\ streamMu = {}
    /\ spc = [s \in Senders |-> "idle"]
    /\ sreq = [s \in Senders |-> NoReq]
    /\ pending = {}
    /\ bcast = NoBcast
    /\ ppc = [p \in Pumps |-> "init"]
    /\ cancelled = [p \in Pumps |-> FALSE]
    /\ snap = [p \in Pumps |-> <<>>]
    /\ idx = [p \in Pumps |-> 1]
    /\ writes = [p \in Pumps |-> <<>>]
    /\ reg = [p \in Pumps |-> 0]
    /\ unreg = [p \in Pumps |-> 0]
    /\ ret = [p \in Pumps |-> ""]
    /\ sendLog = [p \in Pumps |-> <<>>]
    /\ dropped = {}
    /\ kaCount = [p \in Pumps |-> 0]
    /\ panicked = FALSE
    /\ colorMu = {}
    /\ resp = [s \in Senders |-> ""]
    /\ subAt = {}
    /\ flusher = [p \in Pumps |-> NoCaps]
    /\ clock = 0
    /\ crMessages = <<>>
    /\ crNextID = 1
    /\ crSubscribers = [i \in RoomIds |-> 0]
    /\ crChans = 0
    /\ crQueue = <<>>
    /\ crClosed = {}
    /\ crView = <<>>
    /\ crResp = [req |-> NoReq.req, code |-> ""]
    /\ crPanicked = FALSE
    /\ cpc = [k \in Conns |-> "init"]
    /\ cid = [k \in Conns |-> SubscriberID(0)]
    /\ cchan = [k \in Conns |-> 0]
    /\ crViewMeta = [shared |-> FALSE, start |-> 0, edited |-> {}]
    /\ sseClients = {}
    /\ sseMu = {}
    /\ sseCast = [run |-> FALSE, todo |-> {}]
    /\ ssePc = [c \in SseConns |-> "init"]
    /\ sseCloses = [c \in SseConns |-> 0]
    /\ sseZero = [c \in SseConns |-> FALSE]
    /\ sseCount = 0
    /\ pollLog = <<>>
    /\ pollMu = [w |-> FALSE, r |-> [h \in PollConns |-> 0]]
    /\ poll = [h \in PollConns |->
                 [pc |-> "init", i |-> 0, cur |-> 0, sent |-> 0, initial |-> 0,
                  ret |-> ""]]
    /\ pollOut = [h \in PollConns |-> <<>>]
    /\ visitors = [a \in RateAddrs |-> NoVisitor]
    /\ rl = [q \in RateReqs |->
               [addr |-> "", pc |-> "init", now |-> 0, tmp |-> 0, resp |-> 0,
                called |-> FALSE]]

\* The state after construction with the default configuration
\* (nojs.NewServer() without arguments, as every program here calls it).
Init == InitCfg /\ streamingEnabled = TRUE

\* ------------------------------------------------------ identity resolver

\* The number of keys in c.colorMap.
ColorCount == Cardinality({u \in Users : colorMap[u] # 0})

\* Mutant: past the end of the palette the last color is given.
getUserColor_NoWrap(u) ==
    IF colorMap[u] # 0 THEN colorMap[u]
    ELSE IF ColorCount < NumColors THEN ColorCount + 1 ELSE NumColors

\* Mutant: the palette is indexed by the length of the log.
getUserColor_ByLogLen(u) ==
    IF colorMap[u] # 0 THEN colorMap[u] ELSE (Len(messages) % NumColors) + 1

\* getUserColor: the cached color, else colors[len(colorMap) % len(colors)].
\* Colors are numbered 1..NumColors (index + 1) so that 0 can mean "absent".
getUserColor(u) ==
    IF colorMap[u] # 0 THEN colorMap[u] ELSE (ColorCount % NumColors) + 1

\* Mutant: the cache is not consulted.
getUserHash_Fresh(u, h) == h

\* The tag a clock reading gives: time.Now().UnixNano()%10000.
TagOf(t) == t % 10000

\* getUserHash: the cached tag, else the clock-derived value h.
getUserHash(u, h) ==
    IF userHashes[u] # -1 THEN userHashes[u] ELSE h

\* --------------------------------------------------- sendMessageHandler

\* Mutant: the new message is put in front.
StoreAppend_Front(log, msg) == <<msg>> \o log

\* append(c.messages, msg) and append(cr.messages, msg).
StoreAppend(log, msg) == Append(log, msg)

\* A request to the send endpoint: its method and the two form values (the
\* user key stands for username plus session cookie; "" is an empty username).
Req(method, user, text) == [method |-> method, user |-> user, text |-> text]

\* Well-formed submissions of the given users, and the malformed requests.
Posts(users) == {Req("POST", u, "hi") : u \in users}
BadReqs == {Req("GET", "alice", "hi"), Req("POST", "", "hi"),
            Req("POST", "alice", ""), Req("POST", "", "")}

\* Mutant: the text is not looked at.
Validate_NoTextCheck(r) ==
    IF r.method # "POST" THEN "redirect"
    ELSE IF r.user = "" THEN "redirect"
    ELSE "ok"

\* The checks at the head of sendMessageHandler: what the request is answered
\* with at once, or "ok" if the handler goes on.
Validate(r) ==
    IF r.method # "POST" THEN "redirect"
    ELSE IF r.user = "" \/ r.text = "" THEN "redirect"
    ELSE "ok"

\* Broadcast goroutines that exist or are about to: started and not finished,
\* plus the requests that will start one.
InFlight ==
    Cardinality(pending) + (IF bcast.msg # 0 THEN 1 ELSE 0)
        + Cardinality({t \in Senders : spc[t] # "idle"})

\* A request that fails the checks: return ctx.Redirect(...), nothing else.
SendReject(s, reqs) ==
    /\ spc[s] = "idle"
    /\ \E r \in reqs :
        /\ Validate(r) = "redirect"
        /\ sreq' = [sreq EXCEPT ![s] = [req |-> r, hash |-> 0, id |-> 0]]
    /\ resp' = [resp EXCEPT ![s] = "redirect"]
    /\ UNCHANGED <<storeVars, streamClients, queue, closed, mu, streamMu, spc,
                   colorMu, subAt, pending, bcast, ppc, cancelled, pumpLocal,
                   writes, reg, unreg, ret, sendLog, dropped, panicked, otherVars>>

\* A request that passes the checks (POST, username and text not empty);
\* getUserHash runs under hashMu, which nothing else holds across a step.
SendHash(s, reqs, hashes, limit, pendCap) ==
    /\ spc[s] = "idle"
    /\ Len(messages) + Cardinality({t \in Senders : spc[t] # "idle"}) < limit
    /\ InFlight < pendCap
    /\ \E r \in reqs, h \in hashes :
        /\ Validate(r) = "ok"
        /\ userHashes' = [userHashes EXCEPT ![r.user] = getUserHash(r.user, h)]
        /\ sreq' = [sreq EXCEPT ![s] =
                      [req |-> r, hash |-> getUserHash(r.user, h), id |-> 0]]
    /\ spc' = [spc EXCEPT ![s] = "lock"]
    /\ resp' = [resp EXCEPT ![s] = ""]
    /\ UNCHANGED <<messages, colorMap, streamClients, queue, closed, mu, streamMu,
                   colorMu, subAt, pending, bcast, ppc, cancelled, pumpLocal,
                   writes, reg, unreg, ret, sendLog, dropped, panicked, otherVars>>

\* c.mu.Lock()
SendLock(s) ==
    /\ spc[s] = "lock"
    /\ mu.w = {} /\ mu.r = {}
    /\ mu' = [mu EXCEPT !.w = {s}]
    /\ spc' = [spc EXCEPT ![s] = "color"]
    /\ UNCHANGED <<storeVars, streamClients, queue, closed, streamMu, sreq,
                   colorMu, resp, subAt, pending, bcast, ppc, cancelled,
                   pumpLocal, writes, reg, unreg, ret, sendLog, dropped,
                   panicked, otherVars>>

\* The composite literal, up to the call: ID: time.Now().UnixNano(), ...,
\* Color: c.getUserColor(userKey), which starts with c.colorMu.Lock().
SendColor(s) ==
    /\ spc[s] = "color"
    /\ colorMu = {}
    /\ colorMu' = {s}
    /\ sreq' = [sreq EXCEPT ![s].id = clock]
    /\ spc' = [spc EXCEPT ![s] = "append"]
    /\ UNCHANGED <<storeVars, streamClients, queue, closed, mu, streamMu,
                   resp, subAt, pending, bcast, ppc, cancelled, pumpLocal,
                   writes, reg, unreg, ret, sendLog, dropped, panicked,
                   otherVars>>

\* The rest of getUserColor (look up or allocate, deferred colorMu.Unlock())
\* and c.messages = append(c.messages, msg). For the pumps in watch, subAt
\* records whether the pump's channel was registered and had room just then.
SendAppend(s, watch) ==
    /\ spc[s] = "append"
    /\ LET u == sreq[s].req.user
           msg == [seq |-> Len(messages) + 1, id |-> sreq[s].id, key |-> u,
                   hash |-> sreq[s].hash, color |-> getUserColor(u)]
       IN /\ colorMap' = [colorMap EXCEPT ![u] = getUserColor(u)]
          /\ messages' = StoreAppend(messages, msg)
          /\ subAt' = subAt \cup {<<msg.seq, p>> : p \in
                         {q \in watch \cap streamClients : Len(queue[q]) < ChanCap}}
    /\ colorMu' = colorMu \ {s}
    /\ spc' = [spc EXCEPT ![s] = "unlock"]
    /\ UNCHANGED <<userHashes, streamClients, queue, closed, mu, streamMu, sreq,
                   resp, pending, bcast, ppc, cancelled, pumpLocal, writes, reg,
                   unreg, ret, sendLog, dropped, panicked, otherVars>>

\* c.mu.Unlock(); go c.broadcastMessage(msg); return ctx.Redirect(...)
SendUnlock(s) ==
    /\ spc[s] = "unlock"
    /\ mu' = [mu EXCEPT !.w = {}]
    /\ pending' = pending \cup {Len(messages)}
    /\ spc' = [spc EXCEPT ![s] = "idle"]
    /\ sreq' = [sreq EXCEPT ![s] = NoReq]
    /\ resp' = [resp EXCEPT ![s] = "redirect"]
    /\ UNCHANGED <<storeVars, streamClients, queue, closed, streamMu, colorMu,
                   subAt, bcast, ppc, cancelled, pumpLocal, writes, reg, unreg,
                   ret, sendLog, dropped, panicked, otherVars>>

\* ------------------------------------------------------ broadcastMessage

\* Mutant: the goroutine is left on the list of those still to run.
BLock_Again(m) ==
    /\ m \in pending
    /\ streamMu = {}
    /\ streamMu' = {<<"bcast", m>>}
    /\ bcast' = [msg |-> m, todo |-> streamClients]
    /\ UNCHANGED <<otherVars, storeVars, streamClients, queue, closed, mu, sendVars,
                   pending, ppc, cancelled, pumpLocal, writes, reg, unreg, ret,
                   sendLog, dropped, panicked>>

\* c.streamMu.Lock(); the range loop will visit the clients registered now.
BLock(m) ==
    /\ m \in pending
    /\ streamMu = {}
    /\ streamMu' = {<<"bcast", m>>}
    /\ bcast' = [msg |-> m, todo |-> streamClients]
    /\ pending' = pending \ {m}
    /\ UNCHANGED <<otherVars, storeVars, streamClients, queue, closed, mu, sendVars, ppc,
                   cancelled, pumpLocal, writes, reg, unreg, ret, sendLog, dropped, panicked>>

\* Mutant: a full buffer drops its oldest entry to make room.
TrySend_Evict(q, msg) ==
    IF Len(q) < ChanCap THEN Append(q, msg) ELSE Append(Tail(q), msg)

\* Mutant: the send always goes through.
TrySend_Grow(q, msg) == Append(q, msg)

\* select { case client <- msg: default: } on a channel with buffer q.
TrySend(q, msg) == IF Len(q) < ChanCap THEN Append(q, msg) ELSE q

\* One iteration of the range loop, for client c (map order is arbitrary):
\* the send goes through if the buffer has room, else the default case runs.
\* A send on a closed channel panics.
BSendBody(c) ==
    /\ bcast.msg # 0
    /\ c \in bcast.todo
    /\ bcast' = [bcast EXCEPT !.todo = @ \ {c}]
    /\ IF closed[c]
       THEN /\ panicked' = TRUE
            /\ UNCHANGED <<queue, sendLog, dropped>>
       ELSE /\ queue' = [queue EXCEPT ![c] = TrySend(@, messages[bcast.msg])]
            /\ sendLog' = [sendLog EXCEPT ![c] =
                              IF queue'[c] # queue[c] THEN Append(@, bcast.msg) ELSE @]
            /\ dropped' = IF queue'[c] = queue[c]
                          THEN dropped \cup {<<c, bcast.msg>>} ELSE dropped
            /\ UNCHANGED panicked
    /\ UNCHANGED <<otherVars, storeVars, streamClients, closed, mu, streamMu, sendVars,
                   pending, ppc, cancelled, pumpLocal, writes, reg, unreg, ret>>

\* Mutant: a plain send "client <- msg", which waits for room in the buffer.
BSend_Blocking(c) == Len(queue[c]) < ChanCap /\ BSendBody(c)

\* The non-blocking send of broadcastMessage to client c.
BSend(c) == BSendBody(c)

\* The loop is over; the deferred c.streamMu.Unlock() runs.
BUnlock ==
    /\ bcast.msg # 0
    /\ bcast.todo = {}
    /\ streamMu' = {}
    /\ bcast' = NoBcast
    /\ UNCHANGED <<otherVars, storeVars, streamClients, queue, closed, mu, sendVars, pending,
                   ppc, cancelled, pumpLocal, writes, reg, unreg, ret, sendLog, dropped,
                   panicked>>

\* ------------------------------------------------- messagesStreamHandler

\* A stream write by pump p: recorded; ok says whether it succeeded.
Wrote(p, kind, seq, ok) ==
    writes' = [writes EXCEPT ![p] = Append(@, W(kind, seq, ok))]

\* Mutant: the snapshot is read and written first and the channel is
\* registered only afterwards.
After_SnapshotFirst(stmt) ==
    CASE stmt = "preamble" -> "style"
      [] stmt = "style" -> "rlock"
      [] stmt = "snap" -> "register"
      [] stmt = "register" -> "wait"

\* The order of the handler's statements before the select loop: preamble,
\* style, register (and defer the cleanup), snapshot, then the loop.
After(stmt) ==
    CASE stmt = "preamble" -> "style"
      [] stmt = "style" -> "register"
      [] stmt = "register" -> "rlock"
      [] stmt = "snap" -> "wait"

\* Mutant: no deferred cleanup, a return leaves the handler at once.
Return_NoDefer(p) == "done"

\* Where a return goes: into the deferred cleanup once it has been deferred
\* (that is from the registration on), else straight out of the handler.
Return(p) == IF reg[p] > 0 THEN "cleanup" ELSE "done"

\* Mutant: the response writer is not asked whether it can flush.
Stream_NoFlusherTest(enabled, flush) ==
    IF ~enabled THEN "disabled" ELSE "ok"

\* Context.Stream: the error it returns, or "ok" with a StreamWriter, given
\* the configuration flag and whether the ResponseWriter is an http.Flusher.
Stream(enabled, flush) ==
    IF ~enabled THEN "disabled"
    ELSE IF ~flush THEN "unsupported"
    ELSE "ok"

\* What ctx.Stream() was called with on a connection.
Caps(enabled, flush) == [enabled |-> enabled, flush |-> flush, called |-> TRUE]

\* ctx.Stream() succeeded; stream.StreamPage("Messages", nil).
PumpPreamble(p, maxLog, oks) ==
    /\ ppc[p] = "init"
    /\ Len(messages) <= maxLog
    /\ \E fl \in BOOLEAN :
        /\ Stream(streamingEnabled, fl) = "ok"
        /\ flusher' = [flusher EXCEPT ![p] = Caps(streamingEnabled, fl)]
    /\ \E ok \in oks :
        /\ Wrote(p, "preamble", 0, ok)
        /\ ppc' = [ppc EXCEPT ![p] = IF ok THEN After("preamble") ELSE Return(p)]
        /\ ret' = [ret EXCEPT ![p] = IF ok THEN @ ELSE "err"]
    /\ UNCHANGED <<otherVars, storeVars, streamClients, queue, closed, mu, streamMu,
                   sendVars, pending, bcast, cancelled, snap, idx, kaCount, reg,
                   unreg, sendLog, dropped, panicked>>

\* ctx.Stream() failed: return c.messagesStaticHandler(ctx), which copies the
\* log under c.mu.RLock() and answers with one complete document.
PumpStatic(p, maxLog, oks) ==
    /\ ppc[p] = "init"
    /\ Len(messages) <= maxLog
    /\ mu.w = {}
    /\ \E fl \in BOOLEAN :
        /\ Stream(streamingEnabled, fl) # "ok"
        /\ flusher' = [flusher EXCEPT ![p] = Caps(streamingEnabled, fl)]
    /\ snap' = [snap EXCEPT ![p] = messages]
    /\ \E ok \in oks :
        /\ Wrote(p, "static", Len(messages), ok)
        /\ ret' = [ret EXCEPT ![p] = IF ok THEN "nil" ELSE "err"]
    /\ ppc' = [ppc EXCEPT ![p] = Return(p)]
    /\ UNCHANGED <<otherVars, storeVars, streamClients, queue, closed, mu, streamMu,
                   sendVars, pending, bcast, cancelled, idx, kaCount, reg, unreg,
                   sendLog, dropped, panicked>>

\* stream.WriteNode(nojs.Styles(...))
PumpStyle(p, oks) ==
    /\ ppc[p] = "style"
    /\ \E ok \in oks :
        /\ Wrote(p, "style", 0, ok)
        /\ ppc' = [ppc EXCEPT ![p] = IF ok THEN After("style") ELSE Return(p)]
        /\ ret' = [ret EXCEPT ![p] = IF ok THEN @ ELSE "err"]
    /\ UNCHANGED <<otherVars, storeVars, streamClients, queue, closed, mu, streamMu,
                   sendVars, pending, bcast, cancelled, pumpLocal, reg, unreg,
                   sendLog, dropped, panicked>>

\* msgChan := make(chan Message, 10); register it under streamMu; defer cleanup.
PumpRegister(p) ==
    /\ ppc[p] = "register"
    /\ streamMu = {}
    /\ streamClients' = streamClients \cup {p}
    /\ reg' = [reg EXCEPT ![p] = @ + 1]
    /\ ppc' = [ppc EXCEPT ![p] = After("register")]
    /\ UNCHANGED <<otherVars, storeVars, queue, closed, mu, streamMu, sendVars, pending,
                   bcast, cancelled, pumpLocal, writes, unreg, ret, sendLog,
                   dropped, panicked>>

\* c.mu.RLock(); for _, msg := range c.messages
PumpRLock(p) ==
    /\ ppc[p] = "rlock"
    /\ mu.w = {}
    /\ mu' = [mu EXCEPT !.r = @ \cup {p}]
    /\ snap' = [snap EXCEPT ![p] = messages]
    /\ idx' = [idx EXCEPT ![p] = 1]
    /\ ppc' = [ppc EXCEPT ![p] = "snap"]
    /\ UNCHANGED <<otherVars, storeVars, streamClients, queue, closed, streamMu,
                   sendVars, pending, bcast, cancelled, kaCount, flusher, writes,
                   reg, unreg, ret, sendLog, dropped, panicked>>

\* One iteration of the snapshot loop: stream.WriteNode(c.renderMessage(msg));
\* on an error c.mu.RUnlock() and return err.
PumpSnapWrite(p, oks) ==
    /\ ppc[p] = "snap"
    /\ idx[p] <= Len(snap[p])
    /\ \E ok \in oks :
        /\ Wrote(p, "snap", snap[p][idx[p]].seq, ok)
        /\ IF ok
           THEN /\ idx' = [idx EXCEPT ![p] = @ + 1]
                /\ UNCHANGED <<mu, ppc, ret>>
           ELSE /\ mu' = [mu EXCEPT !.r = @ \ {p}]
                /\ ppc' = [ppc EXCEPT ![p] = Return(p)]
                /\ ret' = [ret EXCEPT ![p] = "err"]
                /\ UNCHANGED idx
    /\ UNCHANGED <<otherVars, storeVars, streamClients, queue, closed, streamMu,
                   sendVars, pending, bcast, cancelled, snap, kaCount, flusher,
                   reg, unreg, sendLog, dropped, panicked>>

\* Mutant: the loop stops one element early.
SnapOver_Early(p) == idx[p] >= Len(snap[p])

\* Whether the range loop over the snapshot has visited every element.
SnapOver(p) == idx[p] > Len(snap[p])

\* The snapshot loop is over: c.mu.RUnlock(), enter the select loop.
PumpSnapDone(p) ==
    /\ ppc[p] = "snap"
    /\ SnapOver(p)
    /\ mu' = [mu EXCEPT !.r = @ \ {p}]
    /\ ppc' = [ppc EXCEPT ![p] = After("snap")]
    /\ UNCHANGED <<otherVars, storeVars, streamClients, queue, closed, streamMu, sendVars,
                   pending, bcast, cancelled, pumpLocal, writes, reg, unreg, ret,
                   sendLog, dropped, panicked>>

\* The request's context is cancelled (client gone, server shutting down).
\* Only the select loop looks at it, so a cancellation that fires earlier acts
\* as one that fires when the pump first waits.
Cancel(p) ==
    /\ ppc[p] = "wait"
    /\ ~cancelled[p]
    /\ cancelled' = [cancelled EXCEPT ![p] = TRUE]
    /\ UNCHANGED <<otherVars, storeVars, streamClients, queue, closed, mu, streamMu,
                   sendVars, pending, bcast, ppc, pumpLocal, writes, reg, unreg,
                   ret, sendLog, dropped, panicked>>

\* Mutant: the trailer is written but the loop is not left.
PumpDone_NoReturn(p, oks) ==
    /\ ppc[p] = "wait"
    /\ cancelled[p]
    /\ \E ok \in oks : Wrote(p, "trailer", 0, ok)
    /\ UNCHANGED <<otherVars, storeVars, streamClients, queue, closed, mu, streamMu,
                   sendVars, pending, bcast, ppc, cancelled, pumpLocal, reg,
                   unreg, ret, sendLog, dropped, panicked>>

\* case <-ctx.Request.Context().Done(): return stream.EndHTML()
PumpDone(p, oks) ==
    /\ ppc[p] = "wait"
    /\ cancelled[p]
    /\ \E ok \in oks :
        /\ Wrote(p, "trailer", 0, ok)
        /\ ret' = [ret EXCEPT ![p] = IF ok THEN "nil" ELSE "err"]
    /\ ppc' = [ppc EXCEPT ![p] = Return(p)]
    /\ UNCHANGED <<otherVars, storeVars, streamClients, queue, closed, mu, streamMu,
                   sendVars, pending, bcast, cancelled, pumpLocal, reg, unreg,
                   sendLog, dropped, panicked>>

\* Live fragments pump p has taken from its channel so far.
LiveCount(p) == Cardinality({i \in DOMAIN writes[p] : writes[p][i].kind = "live"})

\* Mutant: the receive hands out the newest entry of the buffer.
RecvMsg_Last(q) == q[Len(q)]

\* The value a receive takes from buffer q, and what it leaves.
RecvMsg(q) == Head(q)
RecvRest(q) == Tail(q)

\* Mutant: the error of the write is ignored and the loop goes on.
AfterWrite_Continue(p, ok) == "wait"

\* The select loop after a write of pump p: on again, or return err.
AfterWrite(p, ok) == IF ok THEN "wait" ELSE Return(p)

\* case msg := <-msgChan: stream.WriteNode(c.renderMessage(msg))
PumpLive(p, recvCap, oks) ==
    /\ ppc[p] = "wait"
    /\ queue[p] # <<>>
    /\ LiveCount(p) < recvCap
    /\ queue' = [queue EXCEPT ![p] = RecvRest(@)]
    /\ \E ok \in oks :
        /\ Wrote(p, "live", RecvMsg(queue[p]).seq, ok)
        /\ ppc' = [ppc EXCEPT ![p] = AfterWrite(p, ok)]
        /\ ret' = [ret EXCEPT ![p] = IF ok THEN @ ELSE "err"]
    /\ UNCHANGED <<otherVars, storeVars, streamClients, closed, mu, streamMu, sendVars,
                   pending, bcast, cancelled, pumpLocal, reg, unreg, sendLog,
                   dropped, panicked>>

\* case <-time.After(30 * time.Second): stream.KeepAlive()
PumpKeepAlive(p, kaCap, oks) ==
    /\ ppc[p] = "wait"
    /\ kaCount[p] < kaCap
    /\ kaCount' = [kaCount EXCEPT ![p] = @ + 1]
    /\ \E ok \in oks :
        /\ Wrote(p, "keepalive", 0, ok)
        /\ ppc' = [ppc EXCEPT ![p] = AfterWrite(p, ok)]
        /\ ret' = [ret EXCEPT ![p] = IF ok THEN @ ELSE "err"]
    /\ UNCHANGED <<otherVars, storeVars, streamClients, queue, closed, mu, streamMu,
                   sendVars, pending, bcast, cancelled, snap, idx, flusher, reg,
                   unreg, sendLog, dropped, panicked>>

\* Mutant: the cleanup takes the lock and closes the channel later on, but
\* leaves the channel in the registry.
CleanupDelete_NoDelete(p) ==
    /\ ppc[p] = "cleanup"
    /\ streamMu = {}
    /\ streamMu' = {<<"pump", p>>}
    /\ unreg' = [unreg EXCEPT ![p] = @ + 1]
    /\ ppc' = [ppc EXCEPT ![p] = "unlock"]
    /\ UNCHANGED <<otherVars, storeVars, streamClients, queue, closed, mu, sendVars,
                   pending, bcast, cancelled, pumpLocal, writes, reg, ret,
                   sendLog, dropped, panicked>>

\* Mutant: the cleanup empties the registry instead of deleting its own
\* channel.
CleanupDelete_All(p) ==
    /\ ppc[p] = "cleanup"
    /\ streamMu = {}
    /\ streamMu' = {<<"pump", p>>}
    /\ streamClients' = {}
    /\ unreg' = [unreg EXCEPT ![p] = @ + 1]
    /\ ppc' = [ppc EXCEPT ![p] = "unlock"]
    /\ UNCHANGED <<otherVars, storeVars, queue, closed, mu, sendVars, pending, bcast,
                   cancelled, pumpLocal, writes, reg, ret, sendLog, dropped,
                   panicked>>

\* The deferred cleanup: c.streamMu.Lock(); delete(c.streamClients, msgChan)
CleanupDelete(p) ==
    /\ ppc[p] = "cleanup"
    /\ streamMu = {}
    /\ streamMu' = {<<"pump", p>>}
    /\ streamClients' = streamClients \ {p}
    /\ unreg' = [unreg EXCEPT ![p] = @ + 1]
    /\ ppc' = [ppc EXCEPT ![p] = "unlock"]
    /\ UNCHANGED <<otherVars, storeVars, queue, closed, mu, sendVars, pending, bcast,
                   cancelled, pumpLocal, writes, reg, ret, sendLog, dropped,
                   panicked>>

\* c.streamMu.Unlock()
CleanupUnlock(p) ==
    /\ ppc[p] = "unlock"
    /\ streamMu' = {}
    /\ ppc' = [ppc EXCEPT ![p] = "close"]
    /\ UNCHANGED <<otherVars, storeVars, streamClients, queue, closed, mu, sendVars,
                   pending, bcast, cancelled, pumpLocal, writes, reg, unreg, ret,
                   sendLog, dropped, panicked>>

\* close(msgChan), which panics on a closed channel; the handler returns.
CleanupClose(p) ==
    /\ ppc[p] = "close"
    /\ closed' = [closed EXCEPT ![p] = TRUE]
    /\ panicked' = (panicked \/ closed[p])
    /\ ppc' = [ppc EXCEPT ![p] = "done"]
    /\ UNCHANGED <<otherVars, storeVars, streamClients, queue, mu, streamMu, sendVars,
                   pending, bcast, cancelled, pumpLocal, writes, reg, unreg, ret,
                   sendLog, dropped>>

\* ------------------------------------------- ChatRoom (example program)

\* The checks at the head of handleChatSend: the answer given at once, or
\* "ok" if the message goes to the room.
RoomValidate(r) ==
    IF r.method # "POST" THEN "405"
    ELSE IF r.user = "" \/ r.text = "" THEN "redirect"
    ELSE "ok"

\* handleChatSend for a request that fails the checks.
RoomReject(reqs) ==
    /\ \E r \in reqs :
        /\ RoomValidate(r) # "ok"
        /\ crResp' = [req |-> r, code |-> RoomValidate(r)]
    /\ UNCHANGED <<demoVars, extVars, streamingEnabled, clock, crMessages, crNextID,
                   crSubscribers, crChans, crQueue, crClosed, crView, crPanicked>>

\* The channels the subscribers map holds.
RoomChans == {crSubscribers[i] : i \in {j \in RoomIds : crSubscribers[j] # 0}}

\* The id AddMessage gives to the next message.
NewID(nextID, log) == nextID

\* handleChatSend for a request that passes: chatRoom.AddMessage(username,
\* message), all of it under cr.mu: the message gets cr.nextID, is appended,
\* and is offered to every subscriber without blocking; then the redirect.
RoomSend(reqs, limit) ==
    /\ Len(crMessages) < limit
    /\ \E r \in reqs :
        /\ RoomValidate(r) = "ok"
        /\ crResp' = [req |-> r, code |-> "redirect"]
        /\ LET msg == [id |-> NewID(crNextID, crMessages), user |-> r.user]
           IN /\ crMessages' = StoreAppend(crMessages, msg)
              /\ crQueue' = [c \in DOMAIN crQueue |->
                                IF c \in RoomChans \ crClosed
                                THEN TrySend(crQueue[c], msg) ELSE crQueue[c]]
    /\ crNextID' = crNextID + 1
    /\ crPanicked' = (crPanicked \/ RoomChans \cap crClosed # {})
    /\ UNCHANGED <<demoVars, extVars, streamingEnabled, clock, crSubscribers, crChans,
                   crClosed, crView>>

\* start in GetMessages: the number of messages left out at the front.
Start(log) == IF Len(log) > RetainLast THEN Len(log) - RetainLast ELSE 0

\* Mutant: the first 50 messages.
GetMessages_First(log) ==
    SubSeq(log, 1, Len(log) - Start(log))

\* ChatRoom.GetMessages: a copy of the last 50 messages.
GetMessages(log) ==
    LET start == IF Len(log) > RetainLast THEN Len(log) - RetainLast ELSE 0
    IN SubSeq(log, start + 1, Len(log))

\* result := make([]ChatMessage, n); copy(result, ...): the result has an
\* array of its own ("make"), not the log's ("slice" would be
\* cr.messages[start:]).
Backing(log) == "make"

\* A caller takes chatRoom.GetMessages() (under cr.mu.RLock()).
RoomGet ==
    /\ crView' = GetMessages(crMessages)
    /\ crViewMeta' = [shared |-> Backing(crMessages) = "slice",
                      start |-> Start(crMessages), edited |-> {}]
    /\ UNCHANGED <<demoVars, connVars, sseVars, pollVars, rateVars, streamingEnabled, clock, crMessages,
                   crNextID, crSubscribers, crChans, crQueue, crClosed, crResp,
                   crPanicked>>

\* What the holder of a slice writes into it.
Edited == [id |-> 0, user |-> "edited"]

\* The holder of the returned slice assigns to its element j; the log's
\* element changes with it if the two share an array.
ViewWrite(j) ==
    /\ j \in DOMAIN crView
    /\ j \notin crViewMeta.edited
    /\ crView' = [crView EXCEPT ![j] = Edited]
    /\ crViewMeta' = [crViewMeta EXCEPT !.edited = @ \cup {j}]
    /\ crMessages' = IF crViewMeta.shared
                     THEN [crMessages EXCEPT ![crViewMeta.start + j] = Edited]
                     ELSE crMessages
    /\ UNCHANGED <<demoVars, connVars, sseVars, pollVars, rateVars, streamingEnabled, clock, crNextID,
                   crSubscribers, crChans, crQueue, crClosed, crResp, crPanicked>>

\* ChatRoom.Subscribe(id): a new channel of capacity 10 is stored under id
\* (whatever the map held under id before) and returned.
Subscribe(i) ==
    /\ crChans' = crChans + 1
    /\ crQueue' = Append(crQueue, <<>>)
    /\ crSubscribers' = [crSubscribers EXCEPT ![i] = crChans + 1]
    /\ UNCHANGED <<crMessages, crNextID, crClosed, crView, crResp, crPanicked>>

\* A caller subscribes id i.
RoomSubscribe(i, maxChans, maxLog) ==
    /\ crChans < maxChans
    /\ Len(crMessages) <= maxLog
    /\ Subscribe(i)
    /\ UNCHANGED <<demoVars, extVars, streamingEnabled, clock>>

\* Mutant: the channel the map gives is closed without looking at exists;
\* for an absent id that is close(nil), which panics.
Unsubscribe_Unchecked(i) ==
    /\ crClosed' = crClosed \cup ({crSubscribers[i]} \ {0})
    /\ crPanicked' = (crPanicked \/ crSubscribers[i] = 0 \/ crSubscribers[i] \in crClosed)
    /\ crSubscribers' = [crSubscribers EXCEPT ![i] = 0]
    /\ UNCHANGED <<crMessages, crNextID, crChans, crQueue, crView, crResp>>

\* ChatRoom.Unsubscribe(id): if id is in the map, close its channel and
\* delete the entry.
Unsubscribe(i) ==
    /\ IF crSubscribers[i] # 0
       THEN /\ crClosed' = crClosed \cup {crSubscribers[i]}
            /\ crPanicked' = (crPanicked \/ crSubscribers[i] \in crClosed)
            /\ crSubscribers' = [crSubscribers EXCEPT ![i] = 0]
       ELSE UNCHANGED <<crClosed, crPanicked, crSubscribers>>
    /\ UNCHANGED <<crMessages, crNextID, crChans, crQueue, crView, crResp>>

\* A caller unsubscribes id i.
RoomUnsubscribe(i) ==
    /\ Unsubscribe(i)
    /\ UNCHANGED <<demoVars, extVars, streamingEnabled, clock>>

\* ------------------------------------------- handleChatStream (ChatRoom)

\* Up to the defer: ctx.Stream() succeeded, the id is made from the clock,
\* the channel comes from Subscribe, Unsubscribe(subscriberID) is deferred.
ConnSubscribe(k) ==
    /\ cpc[k] = "init"
    /\ Stream(streamingEnabled, TRUE) = "ok"
    /\ cid' = [cid EXCEPT ![k] = SubscriberID(clock)]
    /\ Subscribe(SubscriberID(clock))
    /\ cchan' = [cchan EXCEPT ![k] = crChans + 1]
    /\ cpc' = [cpc EXCEPT ![k] = "loop"]
    /\ UNCHANGED <<demoVars, streamingEnabled, clock, crViewMeta, sseVars,
                   pollVars, rateVars>>

\* case msg := <-msgChan: a queued message is taken and written (the
\* result of the write is ignored); on a closed and drained channel the
\* receive returns the zero message at once, again and again ("spin").
ConnRecv(k) ==
    /\ cpc[k] \in {"loop", "spin"}
    /\ IF crQueue[cchan[k]] # <<>>
       THEN /\ crQueue' = [crQueue EXCEPT ![cchan[k]] = RecvRest(@)]
            /\ UNCHANGED cpc
       ELSE /\ cchan[k] \in crClosed
            /\ cpc[k] = "loop"
            /\ cpc' = [cpc EXCEPT ![k] = "spin"]
            /\ UNCHANGED crQueue
    /\ UNCHANGED <<demoVars, streamingEnabled, clock, crMessages, crNextID,
                   crSubscribers, crChans, crClosed, crView, crResp, crPanicked,
                   cid, cchan, crViewMeta, sseVars,
                   pollVars, rateVars>>

\* case <-ctx.Request.Context().Done(): return nil; the deferred
\* chatRoom.Unsubscribe(subscriberID) runs.
ConnDone(k) ==
    /\ cpc[k] \in {"loop", "spin"}
    /\ Unsubscribe(cid[k])
    /\ cpc' = [cpc EXCEPT ![k] = "done"]
    /\ UNCHANGED <<demoVars, streamingEnabled, clock, cid, cchan, crViewMeta, sseVars,
                   pollVars, rateVars>>

\* ------------------------------------------------ SSE demo (demo/main.go)
\* A client channel is unbuffered: a send succeeds only while the handler
\* waits in its select.

\* What no step of the SSE demo writes.
NotSse == <<demoVars, streamingEnabled, clock, roomVars, connVars, crViewMeta,
            pollVars, rateVars>>

\* client := make(chan string); sseMu.Lock(); sseClients[client] = true;
\* sseMu.Unlock(); the cleanup is deferred and the handler enters the loop.
SseRegister(c) ==
    /\ ssePc[c] = "init"
    /\ sseMu = {}
    /\ sseClients' = sseClients \cup {c}
    /\ ssePc' = [ssePc EXCEPT ![c] = "select"]
    /\ UNCHANGED <<NotSse, sseMu, sseCast, sseCloses, sseZero, sseCount>>

\* go broadcastMessage(msg) gets sseMu; the range loop will visit the
\* clients in the map.
SseLock(maxCasts) ==
    /\ sseCount < maxCasts
    /\ sseMu = {}
    /\ sseMu' = {"bcast"}
    /\ sseCast' = [run |-> TRUE, todo |-> sseClients]
    /\ sseCount' = sseCount + 1
    /\ UNCHANGED <<NotSse, sseClients, ssePc, sseCloses, sseZero>>

\* select { case client <- data: default: close(client); delete(...) }
SseSend(c) ==
    /\ sseCast.run /\ c \in sseCast.todo
    /\ sseCast' = [sseCast EXCEPT !.todo = @ \ {c}]
    /\ IF ssePc[c] = "select" /\ sseCloses[c] = 0
       THEN /\ ssePc' = [ssePc EXCEPT ![c] = "write"]
            /\ UNCHANGED <<sseClients, sseCloses>>
       ELSE /\ sseCloses' = [sseCloses EXCEPT ![c] = @ + 1]
            /\ sseClients' = sseClients \ {c}
            /\ UNCHANGED ssePc
    /\ UNCHANGED <<NotSse, sseMu, sseZero, sseCount>>

\* The loop is over; the deferred sseMu.Unlock() runs.
SseUnlock ==
    /\ sseCast.run /\ sseCast.todo = {}
    /\ sseMu' = {}
    /\ sseCast' = [run |-> FALSE, todo |-> {}]
    /\ UNCHANGED <<NotSse, sseClients, ssePc, sseCloses, sseZero, sseCount>>

\* fmt.Fprint(ctx.ResponseWriter, msg); Flush(); back to the select.
SseWrite(c) ==
    /\ ssePc[c] = "write"
    /\ ssePc' = [ssePc EXCEPT ![c] = "select"]
    /\ UNCHANGED <<NotSse, sseClients, sseMu, sseCast, sseCloses, sseZero, sseCount>>

\* case msg := <-client on a closed channel: the receive returns "" at once.
SseRecvClosed(c) ==
    /\ ssePc[c] = "select"
    /\ sseCloses[c] > 0
    /\ sseZero' = [sseZero EXCEPT ![c] = TRUE]
    /\ ssePc' = [ssePc EXCEPT ![c] = "write"]
    /\ UNCHANGED <<NotSse, sseClients, sseMu, sseCast, sseCloses, sseCount>>

\* case <-ctx.Request.Context().Done(): return nil; the deferred function
\* starts.
SseDone(c) ==
    /\ ssePc[c] = "select"
    /\ ssePc' = [ssePc EXCEPT ![c] = "cleanup"]
    /\ UNCHANGED <<NotSse, sseClients, sseMu, sseCast, sseCloses, sseZero, sseCount>>

\* sseMu.Lock(); delete(sseClients, client); sseMu.Unlock()
SseCleanupDelete(c) ==
    /\ ssePc[c] = "cleanup"
    /\ sseMu = {}
    /\ sseClients' = sseClients \ {c}
    /\ ssePc' = [ssePc EXCEPT ![c] = "close"]
    /\ UNCHANGED <<NotSse, sseMu, sseCast, sseCloses, sseZero, sseCount>>

\* close(client), after the unlock.
SseCleanupClose(c) ==
    /\ ssePc[c] = "close"
    /\ sseCloses' = [sseCloses EXCEPT ![c] = @ + 1]
    /\ ssePc' = [ssePc EXCEPT ![c] = "done"]
    /\ UNCHANGED <<NotSse, sseClients, sseMu, sseCast, sseZero, sseCount>>

\* ------------------------------------------- polling demo (part_004)
\* chatStreamHandler writes the log under mu.RLock and then polls it on a
\* ticker; sendMessageHandler appends under mu.Lock.

\* What no step of the polling demo writes.
NotPoll == <<demoVars, streamingEnabled, clock, roomVars, connVars, crViewMeta,
             sseVars, rateVars>>

\* mu.RLock() and mu.RUnlock() by handler h.
RLock(h) == [pollMu EXCEPT !.r[h] = @ + 1]
RUnlock(h) == [pollMu EXCEPT !.r[h] = @ - 1]

\* sendMessageHandler (accepted request): mu.Lock(); append; mu.Unlock().
PollSend(limit) ==
    /\ Len(pollLog) < limit
    /\ ~pollMu.w /\ \A h \in PollConns : pollMu.r[h] = 0
    /\ pollLog' = Append(pollLog, Len(pollLog) + 1)
    /\ UNCHANGED <<NotPoll, pollMu, poll, pollOut>>

\* The page start was written; messagesSent := 0; mu.RLock(); the range
\* loop over messages begins.
PollSnapLock(h) ==
    /\ poll[h].pc = "init"
    /\ ~pollMu.w
    /\ pollMu' = RLock(h)
    /\ poll' = [poll EXCEPT ![h].pc = "snap", ![h].i = 0, ![h].cur = Len(pollLog),
                            ![h].sent = 0]
    /\ UNCHANGED <<NotPoll, pollLog, pollOut>>

\* Mutant: the early return leaves the read lock held.
LoopWrite_NoUnlock(h, ok) ==
    /\ pollOut' = [pollOut EXCEPT ![h] = Append(@, [seq |-> pollLog[poll[h].i + 1],
                                                   ok |-> ok])]
    /\ IF ok
       THEN /\ poll' = [poll EXCEPT ![h].i = @ + 1, ![h].sent = @ + 1]
            /\ UNCHANGED pollMu
       ELSE /\ poll' = [poll EXCEPT ![h].pc = "done", ![h].ret = "err"]
            /\ UNCHANGED pollMu

\* One iteration of either loop: stream.WriteNode(renderStreamingMessage(
\* messages[i], messagesSent)); on an error mu.RUnlock() and return err;
\* else messagesSent++.
LoopWrite(h, ok) ==
    /\ pollOut' = [pollOut EXCEPT ![h] = Append(@, [seq |-> pollLog[poll[h].i + 1],
                                                   ok |-> ok])]
    /\ IF ok
       THEN /\ poll' = [poll EXCEPT ![h].i = @ + 1, ![h].sent = @ + 1]
            /\ UNCHANGED pollMu
       ELSE /\ poll' = [poll EXCEPT ![h].pc = "done", ![h].ret = "err"]
            /\ pollMu' = RUnlock(h)

\* The snapshot loop, one message.
PollSnapWrite(h) ==
    /\ poll[h].pc = "snap"
    /\ poll[h].i < poll[h].cur
    /\ \E ok \in BOOLEAN : LoopWrite(h, ok)
    /\ UNCHANGED <<NotPoll, pollLog>>

\* The snapshot loop is over: initialCount := len(messages); mu.RUnlock().
PollSnapEnd(h) ==
    /\ poll[h].pc = "snap"
    /\ poll[h].i = poll[h].cur
    /\ poll' = [poll EXCEPT ![h].pc = "form", ![h].initial = Len(pollLog)]
    /\ pollMu' = RUnlock(h)
    /\ UNCHANGED <<NotPoll, pollLog, pollOut>>

\* The form is written; on an error return err, else the ticker starts.
PollForm(h) ==
    /\ poll[h].pc = "form"
    /\ \E ok \in BOOLEAN :
          poll' = [poll EXCEPT ![h].pc = IF ok THEN "wait" ELSE "done",
                               ![h].ret = IF ok THEN @ ELSE "err"]
    /\ UNCHANGED <<NotPoll, pollLog, pollMu, pollOut>>

\* Mutant: initialCount is left as it was.
NextInitial_Keep(initial, current) == initial

\* initialCount after a poll that found currentCount messages.
NextInitial(initial, current) == IF current > initial THEN current ELSE initial

\* case <-ticker.C: mu.RLock(); currentCount := len(messages); the loop
\* starts at i = initialCount.
PollTick(h) ==
    /\ poll[h].pc = "wait"
    /\ ~pollMu.w
    /\ pollMu' = RLock(h)
    /\ poll' = [poll EXCEPT ![h].pc = "poll", ![h].cur = Len(pollLog),
                            ![h].i = IF Len(pollLog) > poll[h].initial
                                     THEN poll[h].initial ELSE Len(pollLog)]
    /\ UNCHANGED <<NotPoll, pollLog, pollOut>>

\* The poll loop, one message.
PollWrite(h) ==
    /\ poll[h].pc = "poll"
    /\ poll[h].i < poll[h].cur
    /\ \E ok \in BOOLEAN : LoopWrite(h, ok)
    /\ UNCHANGED <<NotPoll, pollLog>>

\* The poll is over: initialCount = currentCount (if there was anything
\* new); mu.RUnlock(); back to the select.
PollEnd(h) ==
    /\ poll[h].pc = "poll"
    /\ poll[h].i = poll[h].cur
    /\ poll' = [poll EXCEPT ![h].pc = "wait",
                            ![h].initial = NextInitial(@, poll[h].cur)]
    /\ pollMu' = RUnlock(h)
    /\ UNCHANGED <<NotPoll, pollLog, pollOut>>

\* case <-ctx.Request.Context().Done(): return stream.EndHTML()
PollDone(h) ==
    /\ poll[h].pc = "wait"
    /\ \E ok \in BOOLEAN :
          poll' = [poll EXCEPT ![h].pc = "done", ![h].ret = IF ok THEN "nil" ELSE "err"]
    /\ UNCHANGED <<NotPoll, pollLog, pollMu, pollOut>>

\* ------------------------------------------- RateLimit (landing/main.go)
\* The middleware's closure shares the map visitors among all requests and
\* takes no lock: the handlers' reads and writes of the map and of a
\* visitor's fields interleave freely.

\* What no step of RateLimit writes.
NotRate == <<demoVars, streamingEnabled, roomVars, connVars, crViewMeta,
             sseVars, pollVars>>

\* ip := ctx.Request.RemoteAddr; now := time.Now(); v, exists := visitors[ip]
RateStart(q) ==
    /\ rl[q].pc = "init"
    /\ \E a \in RateAddrs :
          rl' = [rl EXCEPT ![q].addr = a, ![q].now = clock,
                          ![q].pc = IF visitors[a].present THEN "test" ELSE "new"]
    /\ UNCHANGED <<NotRate, clock, visitors>>

\* visitors[ip] = &visitor{count: 1, lastSeen: now}
RateNew(q) ==
    /\ rl[q].pc = "new"
    /\ visitors' = [visitors EXCEPT ![rl[q].addr] =
                       [present |-> TRUE, count |-> 1, lastSeen |-> rl[q].now]]
    /\ rl' = [rl EXCEPT ![q].pc = "next"]
    /\ UNCHANGED <<NotRate, clock>>

\* if now.Sub(v.lastSeen) > duration { v.count = 1; v.lastSeen = now };
\* else the handler goes on to v.count++ (v is the pointer read at the
\* start: its fields are written even if the key has left the map).
RateTest(q, duration) ==
    /\ rl[q].pc = "test"
    /\ IF rl[q].now - visitors[rl[q].addr].lastSeen > duration
       THEN /\ visitors' = [visitors EXCEPT ![rl[q].addr].count = 1,
                                            ![rl[q].addr].lastSeen = rl[q].now]
            /\ rl' = [rl EXCEPT ![q].pc = "next"]
       ELSE /\ rl' = [rl EXCEPT ![q].pc = "load"]
            /\ UNCHANGED visitors
    /\ UNCHANGED <<NotRate, clock>>

\* v.count++, the read.
RateLoad(q) ==
    /\ rl[q].pc = "load"
    /\ rl' = [rl EXCEPT ![q].tmp = visitors[rl[q].addr].count, ![q].pc = "store"]
    /\ UNCHANGED <<NotRate, clock, visitors>>

\* v.count++, the write.
RateStore(q) ==
    /\ rl[q].pc = "store"
    /\ visitors' = [visitors EXCEPT ![rl[q].addr].count = rl[q].tmp + 1]
    /\ rl' = [rl EXCEPT ![q].pc = "check"]
    /\ UNCHANGED <<NotRate, clock>>

\* if v.count > requests { return NewHTTPError(429, ...) }
RateCheck(q, requests) ==
    /\ rl[q].pc = "check"
    /\ rl' = IF visitors[rl[q].addr].count > requests
             THEN [rl EXCEPT ![q].pc = "done", ![q].resp = 429]
             ELSE [rl EXCEPT ![q].pc = "next"]
    /\ UNCHANGED <<NotRate, clock, visitors>>

\* The map after the clean-up: above CleanupAbove entries, the entries
\* whose lastSeen is more than duration before now are deleted.
Cleanup(vs, now, duration) ==
    IF Cardinality({a \in RateAddrs : vs[a].present}) > CleanupAbove
    THEN [a \in RateAddrs |->
            IF vs[a].present /\ now - vs[a].lastSeen > duration
            THEN NoVisitor ELSE vs[a]]
    ELSE vs

\* The clean-up, then return next(ctx).
RateNext(q, duration) ==
    /\ rl[q].pc = "next"
    /\ visitors' = Cleanup(visitors, rl[q].now, duration)
    /\ rl' = [rl EXCEPT ![q].pc = "done", ![q].called = TRUE, ![q].resp = 200]
    /\ UNCHANGED <<NotRate, clock>>

\* ------------------------------------------------------------ the clock

\* Time passes: the next reading of time.Now().UnixNano() is larger. Between
\* two ticks every reading gives the same value (the resolution of the
\* clock is that of the platform, not a nanosecond).
Tick(maxClock) ==
    /\ clock < maxClock
    /\ clock' = clock + 1
    /\ UNCHANGED <<demoVars, extVars, streamingEnabled, roomVars>>

\* ------------------------------------------------------- specifications

\* Spec: one connection followed in detail, submissions and broadcasts
\* running concurrently with it.
Next ==
    \/ \E s \in Single : SendHash(s, Posts(Authors), HashVals, MaxMsgs, MaxPending)
    \/ \E s \in Single : SendLock(s)
    \/ \E s \in Single : SendColor(s)
    \/ \E s \in Single : SendAppend(s, {})
    \/ \E s \in Single : SendUnlock(s)
    \/ \E m \in pending : BLock(m)
    \/ \E c \in Pumps : BSend(c)
    \/ BUnlock
    \/ \E p \in Solo : PumpPreamble(p, MaxMsgs, BOOLEAN)
    \/ \E p \in Solo : PumpStyle(p, BOOLEAN)
    \/ \E p \in Solo : PumpRegister(p)
    \/ \E p \in Solo : PumpRLock(p)
    \/ \E p \in Solo : PumpSnapWrite(p, BOOLEAN)
    \/ \E p \in Solo : PumpSnapDone(p)
    \/ \E p \in Solo : Cancel(p)
    \/ \E p \in Solo : PumpDone(p, BOOLEAN)
    \/ \E p \in Solo : PumpLive(p, MaxMsgs, BOOLEAN)
    \/ \E p \in Solo : PumpKeepAlive(p, MaxKeepAlive, BOOLEAN)
    \/ \E p \in Solo : CleanupDelete(p)
    \/ \E p \in Solo : CleanupUnlock(p)
    \/ \E p \in Solo : CleanupClose(p)

Spec == Init /\ [][Next]_vars

\* FairSpec: the scenario of Spec with fewer submissions, under the
\* scheduling the Go runtime gives. A runnable goroutine runs (weak fairness
\* of the broadcast and cleanup steps); select picks among its ready cases
\* at random, so a case that stays ready is taken (weak fairness of the
\* Done case); sync.Mutex hands the lock to a waiter that keeps failing
\* (strong fairness of the cleanup's Lock).
NextFair ==
    \/ \E s \in Single : SendHash(s, Posts(Authors), HashVals, MaxMsgsFair, MaxMsgsFair)
    \/ \E s \in Single : SendLock(s)
    \/ \E s \in Single : SendColor(s)
    \/ \E s \in Single : SendAppend(s, {})
    \/ \E s \in Single : SendUnlock(s)
    \/ \E m \in pending : BLock(m)
    \/ \E c \in Pumps : BSend(c)
    \/ BUnlock
    \/ \E p \in Solo : PumpPreamble(p, MaxMsgsFair, BOOLEAN)
    \/ \E p \in Solo : PumpStyle(p, BOOLEAN)
    \/ \E p \in Solo : PumpRegister(p)
    \/ \E p \in Solo : PumpRLock(p)
    \/ \E p \in Solo : PumpSnapWrite(p, BOOLEAN)
    \/ \E p \in Solo : PumpSnapDone(p)
    \/ \E p \in Solo : Cancel(p)
    \/ \E p \in Solo : PumpDone(p, BOOLEAN)
    \/ \E p \in Solo : PumpLive(p, MaxMsgsFair, BOOLEAN)
    \/ \E p \in Solo : PumpKeepAlive(p, MaxKeepAlive, BOOLEAN)
    \/ \E p \in Solo : CleanupDelete(p)
    \/ \E p \in Solo : CleanupUnlock(p)
    \/ \E p \in Solo : CleanupClose(p)

FairSpec ==
    /\ Init /\ [][NextFair]_vars
    /\ WF_vars(\E c \in Pumps : BSend(c))
    /\ WF_vars(BUnlock)
    /\ \A p \in Solo :
        /\ WF_vars(PumpDone(p, BOOLEAN))
        /\ SF_vars(CleanupDelete(p))
        /\ WF_vars(CleanupUnlock(p))
        /\ WF_vars(CleanupClose(p))

\* SpecFull: two connections and enough submissions to fill a channel.
\* The scenario is kept narrow: a submission arrives only when no broadcast
\* is in flight and no pump is between its preamble and its select loop
\* (unless the log is still short), a pump connects to a short log and is
\* slow (it takes few fragments from its channel), and no connection ends.
FullGate ==
    /\ pending = {} /\ bcast.msg = 0
    /\ \/ Len(messages) < MaxConnLog
       \/ \A p \in Pumps : ppc[p] \notin {"style", "register", "rlock", "snap"}

NextFull ==
    \/ \E s \in Single : FullGate /\ SendHash(s, Posts(Authors), HashVals, ChanCap + MaxExtra, ChanCap)
    \/ \E s \in Single : SendLock(s)
    \/ \E s \in Single : SendColor(s)
    \/ \E s \in Single : SendAppend(s, {})
    \/ \E s \in Single : SendUnlock(s)
    \/ \E m \in pending : BLock(m)
    \/ \E c \in Pumps : BSend(c)
    \/ BUnlock
    \/ \E p \in Pumps : PumpPreamble(p, MaxConnLog, {TRUE})
    \/ \E p \in Pumps : PumpStyle(p, {TRUE})
    \/ \E p \in Pumps : PumpRegister(p)
    \/ \E p \in Pumps : PumpRLock(p)
    \/ \E p \in Pumps : PumpSnapWrite(p, {TRUE})
    \/ \E p \in Pumps : PumpSnapDone(p)
    \/ \E p \in Pumps : PumpLive(p, MaxRecvFull, {TRUE})

SpecFull == Init /\ [][NextFull]_vars

\* SpecLeak: SpecFull with connections that end: a pump in its select loop
\* can be cancelled once the log is long enough to have filled a queue; its
\* exit then runs concurrently with the submissions and broadcasts that
\* follow.
LeakGate == Len(messages) >= ChanCap

NextLeak ==
    \/ NextFull
    \/ \E p \in Pumps : LeakGate /\ Cancel(p)
    \/ \E p \in Pumps : PumpDone(p, {TRUE})
    \/ \E p \in Pumps : CleanupDelete(p)
    \/ \E p \in Pumps : CleanupUnlock(p)
    \/ \E p \in Pumps : CleanupClose(p)

SpecLeak == Init /\ [][NextLeak]_vars

\* SpecPair: two connections with every exit of the pump (write failures,
\* cancellation) and a few submissions, each arriving when the broadcast of
\* the one before is over.
PairGate == pending = {} /\ bcast.msg = 0

NextPair ==
    \/ \E s \in Single : PairGate /\ SendHash(s, Posts(Authors), HashVals, MaxMsgsPair, ChanCap)
    \/ \E s \in Single : SendLock(s)
    \/ \E s \in Single : SendColor(s)
    \/ \E s \in Single : SendAppend(s, {})
    \/ \E s \in Single : SendUnlock(s)
    \/ \E m \in pending : BLock(m)
    \/ \E c \in Pumps : BSend(c)
    \/ BUnlock
    \/ \E p \in Pumps : PumpPreamble(p, MaxMsgsPair, BOOLEAN)
    \/ \E p \in Pumps : PumpStyle(p, BOOLEAN)
    \/ \E p \in Pumps : PumpRegister(p)
    \/ \E p \in Pumps : PumpRLock(p)
    \/ \E p \in Pumps : PumpSnapWrite(p, BOOLEAN)
    \/ \E p \in Pumps : PumpSnapDone(p)
    \/ \E p \in Pumps : Cancel(p)
    \/ \E p \in Pumps : PumpDone(p, BOOLEAN)
    \/ \E p \in Pumps : PumpLive(p, MaxMsgsPair, BOOLEAN)
    \/ \E p \in Pumps : CleanupDelete(p)
    \/ \E p \in Pumps : CleanupUnlock(p)
    \/ \E p \in Pumps : CleanupClose(p)

SpecPair == Init /\ [][NextPair]_vars

\* SpecCast: Spec without write failures and keep-alives, with the history
\* subAt kept for the connection: which messages were appended while its
\* channel was registered and had room. FairCast adds the scheduling: a
\* runnable goroutine runs (the request after its append, the broadcast
\* loop, the cleanup once it holds the lock), a goroutine waiting for
\* streamMu gets it (sync.Mutex hands a starving waiter the lock), select
\* takes a case that stays ready.
NextCast ==
    \/ \E s \in Single : SendHash(s, Posts(Authors), HashVals, MaxMsgsCast, MaxMsgsCast)
    \/ \E s \in Single : SendLock(s)
    \/ \E s \in Single : SendColor(s)
    \/ \E s \in Single : SendAppend(s, Solo)
    \/ \E s \in Single : SendUnlock(s)
    \/ \E m \in pending : BLock(m)
    \/ \E c \in Pumps : BSend(c)
    \/ BUnlock
    \/ \E p \in Solo : PumpPreamble(p, MaxMsgsCast, {TRUE})
    \/ \E p \in Solo : PumpStyle(p, {TRUE})
    \/ \E p \in Solo : PumpRegister(p)
    \/ \E p \in Solo : PumpRLock(p)
    \/ \E p \in Solo : PumpSnapWrite(p, {TRUE})
    \/ \E p \in Solo : PumpSnapDone(p)
    \/ \E p \in Solo : Cancel(p)
    \/ \E p \in Solo : PumpDone(p, {TRUE})
    \/ \E p \in Solo : PumpLive(p, MaxMsgsCast, {TRUE})
    \/ \E p \in Solo : CleanupDelete(p)
    \/ \E p \in Solo : CleanupUnlock(p)
    \/ \E p \in Solo : CleanupClose(p)

SpecCast == Init /\ [][NextCast]_vars

FairCast ==
    /\ SpecCast
    /\ \A s \in Single : WF_vars(SendUnlock(s))
    /\ \A m \in 1..MaxMsgsCast : SF_vars(BLock(m))
    /\ WF_vars(\E c \in Pumps : BSend(c))
    /\ WF_vars(BUnlock)
    /\ \A p \in Solo :
        /\ WF_vars(PumpDone(p, {TRUE}))
        /\ SF_vars(CleanupDelete(p))
        /\ WF_vars(CleanupUnlock(p))
        /\ WF_vars(CleanupClose(p))

\* ------------------------------------------------------------ StreamWriter
\* SpecWriter: a handler that obtains the StreamWriter of connection p from
\* ctx.Stream() and calls its methods in any order. The StreamWriter has
\* the fields writer, flusher and context and nothing else; what it was
\* asked to write is kept in the history writes[p].

\* ctx.Stream() returns a StreamWriter.
NewStream(p) ==
    /\ ~flusher[p].called
    /\ \E fl \in BOOLEAN :
        /\ Stream(streamingEnabled, fl) = "ok"
        /\ flusher' = [flusher EXCEPT ![p] = Caps(streamingEnabled, fl)]
    /\ UNCHANGED <<otherVars, storeVars, streamClients, queue, closed, mu, streamMu,
                   sendVars, pending, bcast, ppc, cancelled, snap, idx, kaCount,
                   writes, reg, unreg, ret, sendLog, dropped, panicked>>

\* sw.writer.Write(data); sw.flusher.Flush(): the bytes go to the connection
\* unless the ResponseWriter reports an error.
Write(p, kind, maxCalls) ==
    /\ flusher[p].called
    /\ Len(writes[p]) < maxCalls
    /\ \E ok \in BOOLEAN : Wrote(p, kind, 0, ok)
    /\ UNCHANGED <<otherVars, storeVars, streamClients, queue, closed, mu, streamMu,
                   sendVars, pending, bcast, ppc, cancelled, pumpLocal, reg, unreg,
                   ret, sendLog, dropped, panicked>>

\* The other methods end in Write.
WriteString(p, kind, maxCalls) == Write(p, kind, maxCalls)
WriteHTML(p, maxCalls) == WriteString(p, "html", maxCalls)
WriteNode(p, maxCalls) == Write(p, "node", maxCalls)
KeepAlive(p, maxCalls) == WriteString(p, "ka", maxCalls)
StartHTML(p, maxCalls) == WriteString(p, "preamble", maxCalls)
EndHTML(p, maxCalls) == WriteString(p, "trailer", maxCalls)

NextWriter ==
    \/ \E p \in Solo : NewStream(p)
    \/ \E p \in Solo : Write(p, "bytes", MaxCalls)
    \/ \E p \in Solo : WriteString(p, "string", MaxCalls)
    \/ \E p \in Solo : WriteHTML(p, MaxCalls)
    \/ \E p \in Solo : WriteNode(p, MaxCalls)
    \/ \E p \in Solo : KeepAlive(p, MaxCalls)
    \/ \E p \in Solo : StartHTML(p, MaxCalls)
    \/ \E p \in Solo : EndHTML(p, MaxCalls)

SpecWriter == Init /\ [][NextWriter]_vars

\* SpecGate: the two send endpoints given every kind of request, well-formed
\* or not, with a registered connection and a subscriber to deliver to.
AllReqs == Posts(Authors) \cup BadReqs

NextGate ==
    \/ \E s \in Single : SendReject(s, AllReqs)
    \/ \E s \in Single : SendHash(s, AllReqs, HashVals, MaxGate, MaxGate)
    \/ \E s \in Single : SendLock(s)
    \/ \E s \in Single : SendColor(s)
    \/ \E s \in Single : SendAppend(s, {})
    \/ \E s \in Single : SendUnlock(s)
    \/ \E m \in pending : BLock(m)
    \/ \E c \in Pumps : BSend(c)
    \/ BUnlock
    \/ \E p \in Solo : PumpPreamble(p, MaxGate, {TRUE})
    \/ \E p \in Solo : PumpStyle(p, {TRUE})
    \/ \E p \in Solo : PumpRegister(p)
    \/ RoomReject(AllReqs)
    \/ RoomSend(AllReqs, MaxGate)
    \/ \E i \in SubIds : RoomSubscribe(i, MaxChans, MaxGate)

SpecGate == Init /\ [][NextGate]_vars

\* SpecRoom: the ChatRoom example with two stream connections, messages
\* and a clock that may or may not tick between two readings. SpecUnsub
\* adds a caller that unsubscribes any id at any time.
NextRoom ==
    \/ Tick(MaxClock)
    \/ \E k \in Conns : ConnSubscribe(k)
    \/ \E k \in Conns : ConnRecv(k)
    \/ \E k \in Conns : ConnDone(k)
    \/ RoomSend(Posts(Authors), MaxRoomLog)

SpecRoom == Init /\ [][NextRoom]_vars

NextUnsub ==
    \/ NextRoom
    \/ \E i \in RoomIds : RoomUnsubscribe(i)

SpecUnsub == Init /\ [][NextUnsub]_vars

\* SpecView: ChatRoom's log growing past the retained 50 while a caller
\* takes GetMessages results and writes into them.
NextView ==
    \/ RoomSend(Posts(Authors), RetainLast + MaxRoomExtra)
    \/ RoomGet
    \/ \E j \in {1, Len(crView)} : ViewWrite(j)

SpecView == Init /\ [][NextView]_vars

\* SpecSse: the SSE demo with two connections and a few broadcasts.
NextSse ==
    \/ \E c \in SseConns : SseRegister(c)
    \/ SseLock(MaxSseCasts)
    \/ \E c \in SseConns : SseSend(c)
    \/ SseUnlock
    \/ \E c \in SseConns : SseWrite(c)
    \/ \E c \in SseConns : SseRecvClosed(c)
    \/ \E c \in SseConns : SseDone(c)
    \/ \E c \in SseConns : SseCleanupDelete(c)
    \/ \E c \in SseConns : SseCleanupClose(c)

SpecSse == Init /\ [][NextSse]_vars

\* SpecRate: three requests from two addresses pass through
\* RateLimit(RateRequests, RateDuration), handled concurrently, while the
\* clock ticks.
NextRate ==
    \/ Tick(MaxRateClock)
    \/ \E q \in RateReqs : RateStart(q)
    \/ \E q \in RateReqs : RateNew(q)
    \/ \E q \in RateReqs : RateTest(q, RateDuration)
    \/ \E q \in RateReqs : RateLoad(q)
    \/ \E q \in RateReqs : RateStore(q)
    \/ \E q \in RateReqs : RateCheck(q, RateRequests)
    \/ \E q \in RateReqs : RateNext(q, RateDuration)

SpecRate == Init /\ [][NextRate]_vars

\* SpecPoll: the polling demo with two connections and a few submissions.
NextPoll ==
    \/ PollSend(MaxPollLog)
    \/ \E h \in PollConns : PollSnapLock(h)
    \/ \E h \in PollConns : PollSnapWrite(h)
    \/ \E h \in PollConns : PollSnapEnd(h)
    \/ \E h \in PollConns : PollForm(h)
    \/ \E h \in PollConns : PollTick(h)
    \/ \E h \in PollConns : PollWrite(h)
    \/ \E h \in PollConns : PollEnd(h)
    \/ \E h \in PollConns : PollDone(h)

SpecPoll == Init /\ [][NextPoll]_vars

\* SpecStore: the two message stores. ChatDemo (package chat) and the
\* ChatRoom example (package main) are separate programs that share no
\* state, so a run is a run of one of them: a program takes steps only
\* while the other is in its initial state. ChatDemo runs with any server
\* configuration, two concurrent submissions, a clock that ticks, and one
\* connection that streams or falls back to the static page;
\* no write fails while streaming and the connection stays open. ChatRoom
\* takes messages beyond its retention size; its subscribers come and go
\* while the log is short.
DemoFresh ==
    /\ messages = <<>> /\ clock = 0
    /\ \A s \in Senders : spc[s] = "idle" /\ resp[s] = "" /\ sreq[s] = NoReq
    /\ \A p \in Pumps : ppc[p] = "init"

RoomFresh ==
    /\ crMessages = <<>> /\ crChans = 0 /\ crView = <<>> /\ crResp.code = ""

\* SpecLocks: the two handlers that write a snapshot under the store's read
\* lock, each followed from a fresh start of the other program: the
\* ChatDemo pump with failing writes and a request, and the polling demo.
PollFresh == pollLog = <<>> /\ \A h \in PollConns : poll[h].pc = "init"

NextDemoLocks ==
    \/ \E s \in Single : PairGate /\ SendHash(s, Posts(Authors), HashVals, MaxLockLog, ChanCap)
    \/ \E s \in Single : SendLock(s)
    \/ \E s \in Single : SendColor(s)
    \/ \E s \in Single : SendAppend(s, {})
    \/ \E s \in Single : SendUnlock(s)
    \/ \E m \in pending : BLock(m)
    \/ \E c \in Pumps : BSend(c)
    \/ BUnlock
    \/ \E p \in Pumps : PumpPreamble(p, MaxLockLog, {TRUE})
    \/ \E p \in Pumps : PumpStyle(p, {TRUE})
    \/ \E p \in Pumps : PumpRegister(p)
    \/ \E p \in Pumps : PumpRLock(p)
    \/ \E p \in Pumps : PumpSnapWrite(p, BOOLEAN)
    \/ \E p \in Pumps : PumpSnapDone(p)
    \/ \E p \in Pumps : Cancel(p)
    \/ \E p \in Pumps : PumpDone(p, {TRUE})
    \/ \E p \in Pumps : PumpLive(p, MaxLockLog, {TRUE})
    \/ \E p \in Pumps : CleanupDelete(p)
    \/ \E p \in Pumps : CleanupUnlock(p)
    \/ \E p \in Pumps : CleanupClose(p)

NextLocks ==
    \/ PollFresh /\ NextDemoLocks
    \/ DemoFresh /\ NextPoll

SpecLocks == Init /\ [][NextLocks]_vars

\* The steps of SpecStore.
NextStore ==
    \/ \E s \in Senders :
          RoomFresh /\ SendHash(s, Posts(Authors), {TagOf(clock)}, MaxMsgsStore, ChanCap)
    \/ \E s \in Senders : SendLock(s)
    \/ \E s \in Senders : SendColor(s)
    \/ \E s \in Senders : SendAppend(s, {})
    \/ \E s \in Senders : SendUnlock(s)
    \/ \E m \in pending : BLock(m)
    \/ \E c \in Pumps : BSend(c)
    \/ BUnlock
    \/ RoomFresh /\ Tick(MaxClock)
    \/ \E p \in Solo : RoomFresh /\ PumpPreamble(p, MaxMsgsStore, {TRUE})
    \/ \E p \in Solo : RoomFresh /\ PumpStatic(p, MaxMsgsStore, BOOLEAN)
    \/ \E p \in Solo : PumpStyle(p, {TRUE})
    \/ \E p \in Solo : PumpRegister(p)
    \/ \E p \in Solo : PumpRLock(p)
    \/ \E p \in Solo : PumpSnapWrite(p, {TRUE})
    \/ \E p \in Solo : PumpSnapDone(p)
    \/ \E p \in Solo : PumpLive(p, MaxMsgsStore, {TRUE})
    \/ DemoFresh /\ RoomSend(Posts(Authors), RetainLast + MaxRoomExtra)
    \/ DemoFresh /\ RoomGet
    \/ \E i \in SubIds : DemoFresh /\ RoomSubscribe(i, MaxChans, MaxSubLog)
    \/ \E i \in SubIds :
          DemoFresh /\ Len(crMessages) <= MaxSubLog /\ RoomUnsubscribe(i)

SpecStore == InitCfg /\ [][NextStore]_vars

\* SpecIdent: the identity resolver under two concurrent requests and
\* more keys than colors. Key names are arbitrary, so new keys arrive in
\* the order of KeyOrder; a request comes from the next new key or, a few
\* times, from the first key again; it arrives when no broadcast but that
\* of the newest message is still under way, and it overlaps with another
\* request only among the first MaxRace submissions. No connection is open.
KeyOrder == <<"alice", "bob", "carol", "dave", "erin", "frank", "grace",
              "heidi", "ivan">>

Seen == {u \in Users : userHashes[u] # -1}

Started == Len(messages) + Cardinality({t \in Senders : spc[t] # "idle"})

Offered ==
    (IF Cardinality(Seen) < Len(KeyOrder)
     THEN {KeyOrder[Cardinality(Seen) + 1]} ELSE {})
    \cup (IF Seen # {} /\ Started - Cardinality(Seen) < MaxRepeat
          THEN {KeyOrder[1]} ELSE {})

IdentGate ==
    /\ pending \subseteq {Len(messages)}
    /\ bcast.msg \in {0, Len(messages)}
    /\ (\A t \in Senders : spc[t] = "idle") \/ Started < MaxRace

NextIdent ==
    \/ \E s \in Senders :
          IdentGate /\ SendHash(s, Posts(Offered), HashVals,
                                Len(KeyOrder) + MaxRepeat, 2)
    \/ \E s \in Senders : SendLock(s)
    \/ \E s \in Senders : SendColor(s)
    \/ \E s \in Senders : SendAppend(s, {})
    \/ \E s \in Senders : SendUnlock(s)
    \/ \E m \in pending : BLock(m)
    \/ BUnlock

SpecIdent == Init /\ [][NextIdent]_vars

\* ------------------------------------------------------------- properties

\* The sequence numbers of the messages in buffer q.
Seqs(q) == [i \in DOMAIN q |-> q[i].seq]

\* The elements of sequence s, as a set.
Range(s) == {s[i] : i \in DOMAIN s}

\* A step is the range-loop iteration of the running broadcast for client c.
IsSendTo(c) == bcast.msg # 0 /\ c \in bcast.todo /\ c \notin bcast'.todo

\* C1: broadcastMessage never blocks and never skips a channel with room.
\* Whatever the fill levels, the running broadcast can take its next step
\* (each pending iteration is enabled, and the unlock once none is left;
\* a cleanup holding the lock a broadcast waits for can release it);
\* the iteration for a channel holding fewer than ChanCap messages appends
\* the message to it, the iteration for a full channel leaves it as it is,
\* and neither touches any other channel.
C1_BroadcastNeverBlocks ==
    /\ [](bcast.msg # 0 =>
            /\ \A c \in bcast.todo : ENABLED BSend(c)
            /\ bcast.todo = {} => ENABLED BUnlock)
    /\ [](\A p \in Pumps : <<"pump", p>> \in streamMu => ENABLED CleanupUnlock(p))
    /\ [][\A c \in Pumps : IsSendTo(c) =>
            /\ Len(queue[c]) < ChanCap =>
                   queue'[c] = Append(queue[c], messages[bcast.msg])
            /\ Len(queue[c]) >= ChanCap => bcast.msg \notin Range(Seqs(queue'[c]))
            /\ \A d \in Pumps \ {c} : queue'[d] = queue[d]]_vars

\* C1 witness: one broadcast found A's channel full and dropped the message
\* there, and delivered the same message to B.
C1_Witness ==
    \E m \in 1..Len(messages) :
        /\ <<"A", m>> \in dropped
        /\ m \in Range(sendLog["B"])
        /\ bcast.msg = 0

\* C2: a broadcast that finds a subscriber's queue at capacity leaves the
\* queue's contents and order as they are, keeps the subscriber registered
\* and raises nothing (no panic, the submitting handler is not touched); a
\* subscriber that was dropped for before and has room again is enqueued for.
C2_FullQueueUntouched ==
    [][\A c \in Pumps : IsSendTo(c) =>
          /\ Len(queue[c]) = ChanCap =>
                /\ queue'[c] = queue[c]
                /\ streamClients' = streamClients
                /\ panicked' = panicked
                /\ spc' = spc /\ ret' = ret
          /\ (Len(queue[c]) < ChanCap /\ \E m \in 1..Len(messages) : <<c, m>> \in dropped)
                => Seqs(queue'[c]) = Append(Seqs(queue[c]), bcast.msg)]_vars

\* C2 witness: A's queue was full for message m, A's pump then took an entry
\* and a later message n was enqueued for A; A is still registered.
C2_Witness ==
    \E m, n \in 1..Len(messages) :
        /\ <<"A", m>> \in dropped
        /\ n > m
        /\ n \in Range(Seqs(queue["A"]))
        /\ "A" \in streamClients
        /\ ~panicked

\* C3: once the cleanup has removed a channel from streamClients no
\* broadcast sends to it, and no send ever targets a closed channel: the
\* running broadcast only has registered, open channels left to visit, a
\* closed channel is never registered, nothing panics, and the record of
\* what was enqueued on an unregistered channel never grows.
C3_NoSendAfterUnregister ==
    /\ [](/\ ~panicked
          /\ \A c \in bcast.todo : c \in streamClients /\ ~closed[c]
          /\ \A p \in Pumps : closed[p] => p \notin streamClients)
    /\ [][\A p \in Pumps : p \notin streamClients =>
            sendLog'[p] = sendLog[p] /\ (ppc[p] # "wait" => queue'[p] = queue[p])]_vars

\* C3 witness: A's cleanup has deleted the channel and released the lock (the
\* channel is about to be closed or closed), A had been sent a message, and
\* a broadcast of another message is running.
C3_Witness ==
    /\ ppc["A"] \in {"close", "done"}
    /\ unreg["A"] = 1
    /\ sendLog["A"] # <<>>
    /\ bcast.msg # 0
    /\ bcast.msg \notin Range(sendLog["A"])

\* The messages pump p has written to its stream (snapshot or live).
Written(p) ==
    {writes[p][i].seq : i \in {j \in DOMAIN writes[p] :
                                  writes[p][j].kind \in {"snap", "live"} /\ writes[p][j].ok}}

\* Message m still awaits its broadcast to p: the goroutine is about to be
\* started, or has not taken the lock, or has not reached p in its loop.
Awaiting(p, m) ==
    \/ m \in pending
    \/ bcast.msg = m /\ p \in bcast.todo
    \/ m = Len(messages) /\ \E s \in Senders : spc[s] = "unlock"

\* C4: no message is lost between snapshot and live mode. For a pump in its
\* select loop, every message of the log has been written to its stream, or
\* is queued in its channel, or awaits its broadcast, or was dropped by a
\* broadcast that found the queue full.
C4_NoLossAtSwitch ==
    \A p \in Pumps : ppc[p] = "wait" =>
        \A m \in 1..Len(messages) :
            \/ m \in Written(p)
            \/ m \in Range(Seqs(queue[p]))
            \/ Awaiting(p, m)
            \/ <<p, m>> \in dropped

\* C4 witness: A is in its loop; message 1 was in its snapshot and is also
\* queued (a duplicate), message 2 came after the snapshot and was written
\* live.
C4_Witness ==
    /\ ppc["A"] = "wait"
    /\ Len(snap["A"]) = 1
    /\ 1 \in Range(Seqs(queue["A"]))
    /\ \E i \in DOMAIN writes["A"] : writes["A"][i] = W("live", 2, TRUE)

\* The live fragments pump p wrote, in the order of the writes.
LiveSeq(p) ==
    LET live == SelectSeq(writes[p], LAMBDA w : w.kind = "live")
    IN [i \in DOMAIN live |-> live[i].seq]

\* C5: per subscriber, live fragments are written in the order in which the
\* broadcasts enqueued them: what the pump has written live is a prefix of
\* what was enqueued on its channel, and the rest is the queue.
C5_FifoPerChannel ==
    \A p \in Pumps :
        /\ Len(LiveSeq(p)) <= Len(sendLog[p])
        /\ LiveSeq(p) = SubSeq(sendLog[p], 1, Len(LiveSeq(p)))
        /\ Seqs(queue[p]) = SubSeq(sendLog[p], Len(LiveSeq(p)) + 1, Len(sendLog[p]))

\* C5 witness: the broadcasts of messages 1 and 2 ran in the opposite order,
\* both were queued together, and A wrote them as enqueued: 2, then 1.
C5_Witness ==
    /\ sendLog["A"] = <<2, 1>>
    /\ LiveSeq("A") = <<2, 1>>

\* The number of trailers pump p wrote (or tried to write).
TrailerCount(p) ==
    Cardinality({i \in DOMAIN writes[p] : writes[p][i].kind = "trailer"})

\* The last write pump p attempted.
LastWrite(p) == writes[p][Len(writes[p])]

\* C6 as claimed: a pump whose cancellation fired while it was waiting has,
\* once terminated, written the trailer exactly once.
C6_Original ==
    \A p \in Pumps : (ppc[p] = "done" /\ cancelled[p]) => TrailerCount(p) = 1

\* C6 as amended: when the cancellation fires while the pump waits, the pump
\* eventually (fair scheduling) leaves the loop and terminates with its
\* channel out of the registry and closed; it writes the trailer at most
\* once: once, as its last write, unless a live fragment or keep-alive that
\* the select took first failed to write, which ends the pump with no trailer.
C6_CancelEndsPump ==
    /\ \A p \in Pumps :
          cancelled[p] ~> (ppc[p] = "done" /\ p \notin streamClients /\ closed[p])
    /\ [](\A p \in Pumps :
            /\ TrailerCount(p) <= 1
            /\ (ppc[p] = "done" /\ cancelled[p]) =>
                 \/ TrailerCount(p) = 1 /\ LastWrite(p).kind = "trailer"
                 \/ /\ TrailerCount(p) = 0
                    /\ LastWrite(p).kind \in {"live", "keepalive"}
                    /\ ~LastWrite(p).ok)

\* C6 witness: A was cancelled while a fragment was queued, wrote fragments,
\* then the trailer, once, and is gone from the registry.
C6_Witness ==
    /\ ppc["A"] = "done" /\ cancelled["A"]
    /\ TrailerCount("A") = 1
    /\ LiveSeq("A") # <<>>
    /\ "A" \notin streamClients

\* C7 as claimed: every pump that has ended, by whatever exit, has run the
\* unregister step exactly once.
C7_Original ==
    \A p \in Pumps : ppc[p] = "done" => unreg[p] = 1

\* C7 as amended: a pump that registered its channel runs the unregister
\* step (delete from the registry, close) exactly once on every later exit
\* (snapshot, live fragment or keep-alive write failure, cancellation); a
\* pump whose preamble or style write fails returns before it registers and
\* runs neither; no pump unregisters twice.
C7_UnregisterOncePerRegistration ==
    \A p \in Pumps :
        /\ unreg[p] <= reg[p] /\ reg[p] <= 1
        /\ ~panicked
        /\ ppc[p] = "done" =>
              /\ unreg[p] = reg[p]
              /\ closed[p] <=> reg[p] = 1
              /\ p \notin streamClients
              /\ reg[p] = 0 <=> (LastWrite(p).kind \in {"preamble", "style"}
                                  /\ ~LastWrite(p).ok)

\* C7 witness: A registered, failed to write a snapshot fragment, and has
\* ended after one run of the cleanup.
C7_Witness ==
    /\ ppc["A"] = "done"
    /\ LastWrite("A").kind = "snap" /\ ~LastWrite("A").ok
    /\ reg["A"] = 1 /\ unreg["A"] = 1 /\ closed["A"]

\* C8: a failed write of a live fragment or keep-alive is the last thing the
\* pump does on its stream (no retry, no trailer), the pump is out of the
\* loop for good and the handler's return value is the error.
C8_WriteErrorEndsPump ==
    \A p \in Pumps : \A i \in DOMAIN writes[p] :
        (writes[p][i].kind \in {"live", "keepalive"} /\ ~writes[p][i].ok) =>
            /\ i = Len(writes[p])
            /\ ppc[p] \in {"cleanup", "unlock", "close", "done"}
            /\ ret[p] = "err"

\* C8 witness: A wrote a live fragment, failed on the next one while another
\* fragment was still queued, and has returned.
C8_Witness ==
    /\ ppc["A"] = "done"
    /\ LastWrite("A").kind = "live" /\ ~LastWrite("A").ok
    /\ Len(LiveSeq("A")) = 2
    /\ queue["A"] # <<>>

\* A step of pump p on its way out after a write error: the failing write
\* itself, or a step of the return that follows it.
FailExitStep(p) ==
    \/ /\ Len(writes'[p]) = Len(writes[p]) + 1
       /\ ~writes'[p][Len(writes'[p])].ok
    \/ ret[p] = "err" /\ ppc'[p] # ppc[p]

\* C9: a pump that ends on a write failure changes nothing outside its own
\* connection: its steps leave the message log, the color and tag caches,
\* and every other subscriber's registry entry, queue, channel and stream as
\* they are (as the steps of a cancelled pump do); and a pump that is still
\* connected stays registered with an open channel, whatever ended the
\* others, so broadcasts keep reaching it.
C9_FailureIsLocal ==
    /\ [][\A p \in Pumps : FailExitStep(p) =>
            /\ UNCHANGED <<messages, colorMap, userHashes>>
            /\ \A q \in Pumps \ {p} :
                  /\ (q \in streamClients') <=> (q \in streamClients)
                  /\ UNCHANGED <<queue[q], closed[q], sendLog[q], writes[q], ppc[q]>>]_vars
    /\ [](\A q \in Pumps : ppc[q] \in {"rlock", "snap", "wait"} =>
                              q \in streamClients /\ ~closed[q])

\* C9 witness: A failed to write the live fragment of message 1 and is gone;
\* message 2, broadcast afterwards, reached B, which wrote both.
C9_Witness ==
    /\ ppc["A"] = "done" /\ ret["A"] = "err"
    /\ LastWrite("A") = W("live", 1, FALSE)
    /\ sendLog["A"] = <<1>>
    /\ sendLog["B"] = <<1, 2>>
    /\ LiveSeq("B") = <<1, 2>>
    /\ colorMap["alice"] # 0 /\ Len(messages) = 2

\* The indices of pump p's writes of the given kinds.
Idx(p, kinds) == {i \in DOMAIN writes[p] : writes[p][i].kind \in kinds}

\* C10: each pump writes the preamble first and once, then the style, then
\* the snapshot fragments in log order, then live fragments and keep-alives,
\* then at most one trailer; a live fragment, keep-alive or trailer comes
\* only after the whole snapshot was written, and nothing follows the
\* trailer.
C10_WriteOrder ==
    \A p \in Pumps :
        LET w == writes[p]
            nSnap == Cardinality(Idx(p, {"snap"}))
        IN /\ Idx(p, {"preamble"}) = (IF w = <<>> THEN {} ELSE {1})
           /\ Idx(p, {"style"}) = (IF Len(w) < 2 THEN {} ELSE {2})
           /\ Idx(p, {"snap"}) = 3..(2 + nSnap)
           /\ \A i \in Idx(p, {"snap"}) : w[i].seq = i - 2 /\ w[i].seq = snap[p][i - 2].seq
           /\ Idx(p, {"live", "keepalive", "trailer"}) # {} =>
                 /\ nSnap = Len(snap[p])
                 /\ \A i \in Idx(p, {"snap"}) : w[i].ok
           /\ \A i \in Idx(p, {"trailer"}) : i = Len(w)

\* C10 witness: A wrote preamble, style, a snapshot of two messages, then a
\* live fragment and a keep-alive, then the trailer.
C10_Witness ==
    /\ Len(writes["A"]) = 7
    /\ Cardinality(Idx("A", {"snap"})) = 2
    /\ Idx("A", {"live"}) # {} /\ Idx("A", {"keepalive"}) # {}
    /\ LastWrite("A").kind = "trailer"

\* ---------------------------------------------------------------- C11..C20

\* Sequence a is a prefix of sequence b.
IsPrefix(a, b) == Len(a) <= Len(b) /\ a = SubSeq(b, 1, Len(a))

\* Sequence a is a run of consecutive entries of sequence b.
IsRun(a, b) ==
    \E k \in 0..(Len(b) - Len(a)) : a = SubSeq(b, k + 1, k + Len(a))

\* A step in which request s of ChatDemo appends its message.
IsAppendBy(s) == spc[s] = "append" /\ spc'[s] = "unlock"

\* C11: the message log only grows and keeps call order. In both stores a
\* step leaves the log as it is or adds one entry at its end (so every
\* earlier log is a prefix of every later one); the log of ChatDemo changes
\* exactly in the append step of an accepted submission, which adds that
\* submission's message, and the log of ChatRoom exactly when AddMessage
\* hands out an id; and every snapshot read is in append order: the slice
\* the stream snapshot or the static handler ranges over is a prefix of the
\* log, and what GetMessages returned is a run of consecutive log entries.
C11_LogOnlyGrows ==
    /\ [][/\ IsPrefix(messages, messages') /\ Len(messages') <= Len(messages) + 1
          /\ IsPrefix(crMessages, crMessages')
          /\ Len(crMessages') <= Len(crMessages) + 1
          /\ (messages' # messages) <=> (\E s \in Senders : IsAppendBy(s))
          /\ \A s \in Senders : IsAppendBy(s) =>
                LET m == messages'[Len(messages')]
                IN m.key = sreq[s].req.user /\ m.id = sreq[s].id
                       /\ m.seq = Len(messages')
          /\ (crMessages' # crMessages) <=> (crNextID' # crNextID)]_vars
    /\ [](/\ \A p \in Pumps : IsPrefix(snap[p], messages)
          /\ IsRun(crView, crMessages)
          /\ \A i \in DOMAIN messages : messages[i].seq = i)

\* C11 witness: the second message has just been appended (its request
\* still holds the lock); the connection's snapshot, taken before, holds
\* the first message only.
C11_Witness ==
    /\ Len(messages) = 2
    /\ Len(snap["A"]) = 1
    /\ \E s \in Senders : spc[s] = "unlock"

\* The ids of a log are strictly increasing in append order (hence unique).
IdsIncrease(log) ==
    \A i, j \in DOMAIN log : i < j => log[i].id < log[j].id

\* C12 as claimed: message ids are unique and strictly increasing in append
\* order, for the counter of ChatRoom.AddMessage and for the clock readings
\* of ChatDemo.sendMessageHandler alike.
C12_Original == IdsIncrease(crMessages) /\ IdsIncrease(messages)

\* A step in which request s of ChatDemo passes the checks and gets its tag.
IsHashBy(s) == spc[s] = "idle" /\ spc'[s] = "lock"

\* C13: getUserColor and getUserHash are idempotent per key. No step
\* changes or removes a cache entry that exists; a call returns what the
\* cache holds after it (the tag the request carries, the color of the
\* message it appends), which for a key already cached is what the cache
\* held before; so every message of a key carries the same color and tag,
\* those cached for the key, however the requests interleave.
C13_ResolverIdempotent ==
    /\ [][/\ \A u \in Users :
                /\ colorMap[u] # 0 => colorMap'[u] = colorMap[u]
                /\ userHashes[u] # -1 => userHashes'[u] = userHashes[u]
          /\ \A s \in Senders : IsHashBy(s) =>
                LET u == sreq'[s].req.user
                IN /\ sreq'[s].hash = userHashes'[u] /\ userHashes'[u] # -1
                   /\ userHashes[u] # -1 => sreq'[s].hash = userHashes[u]
          /\ \A s \in Senders : IsAppendBy(s) =>
                LET u == sreq[s].req.user
                    m == messages'[Len(messages')]
                IN /\ m.color = colorMap'[u] /\ colorMap'[u] # 0
                   /\ colorMap[u] # 0 => m.color = colorMap[u]]_vars
    /\ [](\A i \in DOMAIN messages :
            /\ messages[i].color = colorMap[messages[i].key]
            /\ messages[i].hash = userHashes[messages[i].key])

\* C13 witness: one key has two messages in the log, the first appended
\* before the clock ticked and the second after it, and both carry the tag
\* and the color the first call allocated.
C13_Witness ==
    /\ Len(messages) = 2
    /\ messages[1].key = messages[2].key
    /\ messages[1].id = 0 /\ messages[2].id = 1
    /\ messages[1].hash = TagOf(0) /\ messages[2].hash = TagOf(0)
    /\ messages[2].color = 1

\* The distinct keys of a log in the order of their first message, which is
\* the order of their first getUserColor call (the call and the append are
\* one critical section of c.mu).
RECURSIVE FirstKeys(_)
FirstKeys(log) ==
    IF log = <<>> THEN <<>>
    ELSE LET r == FirstKeys(SubSeq(log, 1, Len(log) - 1))
             k == log[Len(log)].key
         IN IF k \in Range(r) THEN r ELSE Append(r, k)

\* C14: colors are handed out round-robin by first-call order: the k-th
\* distinct key has colors[(k-1) mod 8] (color number ((k-1) mod 8) + 1
\* here), whatever else was submitted in between, and so the 9th distinct
\* key has the color of the 1st.
C14_RoundRobin ==
    LET fk == FirstKeys(messages)
    IN /\ \A k \in DOMAIN fk : colorMap[fk[k]] = ((k - 1) % NumColors) + 1
       /\ Len(fk) > NumColors => colorMap[fk[NumColors + 1]] = colorMap[fk[1]]
       /\ ColorCount = Len(fk)

\* C14 witness: nine distinct keys have a color, the first key has
\* submitted again in between, and the first color went to the key whose
\* request arrived second and reached getUserColor first.
C14_Witness ==
    /\ Len(FirstKeys(messages)) = NumColors + 1
    /\ Len(messages) > NumColors + 1
    /\ messages[1].key = KeyOrder[2]
    /\ colorMap[KeyOrder[NumColors + 1]] = 1

\* The broadcast of message m has run to its end.
Finished(m) ==
    /\ m <= Len(messages)
    /\ m \notin pending /\ bcast.msg # m
    /\ ~(m = Len(messages) /\ \E s \in Senders : spc[s] = "unlock")

\* How often message m was enqueued on pump p's channel.
Enqueued(p, m) == Cardinality({i \in DOMAIN sendLog[p] : sendLog[p][i] = m})

\* Every queued message is the log entry of its number, with the color and
\* the tag cached for its author key.
QueuedAsCached ==
    \A p \in Pumps : \A i \in DOMAIN queue[p] :
        LET q == queue[p][i]
        IN /\ q = messages[q.seq]
           /\ q.color = colorMap[q.key] /\ q.hash = userHashes[q.key]

\* C15 as claimed: once the broadcast of a message is over, a subscriber
\* that was registered and had room in its queue when the message was
\* appended has had the message enqueued exactly once, with the cached
\* color and tag.
C15_Original ==
    /\ QueuedAsCached
    /\ \A m \in DOMAIN messages : \A p \in Pumps :
          (<<m, p>> \in subAt /\ Finished(m)) => Enqueued(p, m) = 1

\* C15 as amended: every accepted submission starts one broadcast, which
\* takes the registry lock once, visits exactly the channels registered at
\* that moment, once each, and ends (under fair scheduling); a channel
\* visited while it has room gets the message appended, so a subscriber
\* that is registered at the append and still registered when the broadcast
\* is over has the message exactly once unless its queue was full; no
\* channel ever gets a message twice; and what is enqueued is the log entry
\* with the color and tag cached for its author.
C15_OneBroadcastPerSubmission ==
    /\ \A m \in 1..MaxMsgsCast : (Len(messages) >= m) ~> Finished(m)
    /\ [](/\ QueuedAsCached
          /\ \A m \in DOMAIN messages : \A p \in Pumps :
                /\ Enqueued(p, m) <= 1
                /\ (<<m, p>> \in subAt /\ Finished(m) /\ p \in streamClients)
                      => Enqueued(p, m) + (IF <<p, m>> \in dropped THEN 1 ELSE 0) = 1)
    /\ [][/\ (bcast.msg = 0 /\ bcast'.msg # 0) =>
                /\ bcast'.msg \in pending /\ pending' = pending \ {bcast'.msg}
                /\ bcast'.todo = streamClients
          /\ (bcast.msg # 0 /\ bcast' # bcast) =>
                \/ bcast.todo = {} /\ bcast' = NoBcast
                \/ \E c \in bcast.todo :
                      /\ bcast' = [bcast EXCEPT !.todo = @ \ {c}]
                      /\ Len(queue[c]) < ChanCap =>
                            sendLog'[c] = Append(sendLog[c], bcast.msg)
          /\ \A s \in Senders : (spc[s] = "unlock" /\ spc'[s] = "idle") =>
                pending' = pending \cup {Len(messages)}
                    /\ Len(messages) \notin pending]_vars

\* C15 witness: A was registered when message 1 was appended, the broadcast
\* enqueued it once and is over, A wrote it, and a second message, appended
\* after A's channel had left the registry, was broadcast to nobody.
C15_Witness ==
    /\ <<1, "A">> \in subAt /\ Finished(1) /\ sendLog["A"] = <<1>>
    /\ LiveSeq("A") = <<1>>
    /\ Len(messages) = 2 /\ Finished(2) /\ <<2, "A">> \notin subAt

\* C16 as claimed: no lock is held during a stream write or a channel
\* send: a pump that writes is not a reader of the message-store lock, a
\* broadcast iteration runs without the registry lock, and a request
\* waiting to append is never kept waiting by a pump that is in the middle
\* of its snapshot writes.
C16_Original ==
    /\ [][/\ \A p \in Pumps : writes'[p] # writes[p] => p \notin mu.r
          /\ \A c \in Pumps : IsSendTo(c) => streamMu = {}]_vars
    /\ [](\A p \in Pumps : \A s \in Senders :
            (ppc[p] = "snap" /\ idx[p] <= Len(snap[p]) /\ spc[s] = "lock" /\ mu.w = {})
                => ENABLED SendLock(s))

\* The number of locks task t holds (hashMu is taken and released within
\* getUserHash and is held by nobody between two steps).
LocksHeld(t) ==
    Cardinality(({"mu"} \X ((mu.w \cup mu.r) \cap {t}))
                \cup ({"colorMu"} \X (colorMu \cap {t}))
                \cup ({"streamMu"} \X {h \in streamMu : h[2] = t}))

\* C17 as claimed: in every reachable state each task (request, pump,
\* broadcast) holds at most one of the locks.
C17_Original ==
    \A t \in Senders \cup Pumps \cup (1..Len(messages)) : LocksHeld(t) <= 1

\* C18 as claimed: once EndHTML has been called on a StreamWriter (and
\* has written the trailer), no later call on the same StreamWriter emits
\* bytes to the connection.
C18_Original ==
    \A p \in Pumps : \A i \in DOMAIN writes[p] : \A j \in DOMAIN writes[p] :
        (i < j /\ writes[p][i].kind = "trailer" /\ writes[p][i].ok) => ~writes[p][j].ok

\* A request the claim is about: not a POST, or an empty username or text.
IsBad(r) == r.method # "POST" \/ r.user = "" \/ r.text = ""

\* A step in which ChatDemo's send endpoint takes a malformed request from
\* client s, and one in which ChatRoom's takes one.
DemoTakesBad(s) ==
    /\ spc[s] = "idle"
    /\ <<sreq'[s], resp'[s]>> # <<sreq[s], resp[s]>>
    /\ IsBad(sreq'[s].req)

RoomTakesBad == crResp' # crResp /\ IsBad(crResp'.req)

\* What a rejected request must leave alone in each program.
DemoCore == <<messages, colorMap, userHashes, streamClients, queue, closed,
              pending, bcast, spc, sendLog, dropped, mu, streamMu, colorMu>>
RoomCore == <<crMessages, crNextID, crSubscribers, crChans, crQueue, crClosed>>

\* C19 as claimed: at both send endpoints a malformed request is answered
\* with a redirect and changes no core state.
C19_Original ==
    [][/\ \A s \in Senders : DemoTakesBad(s) =>
              resp'[s] = "redirect" /\ UNCHANGED DemoCore
       /\ RoomTakesBad => crResp'.code = "redirect" /\ UNCHANGED RoomCore]_vars

\* C19 as amended: a malformed request changes no core state at either
\* endpoint (log, caches, registry, queues, no broadcast started, no id
\* used); ChatDemo answers it with a redirect; ChatRoom answers an empty
\* username or message with a redirect and a request that is not a POST
\* with the error 405; and no request past the checks is malformed.
C19_RejectedChangesNothing ==
    /\ [][/\ \A s \in Senders : DemoTakesBad(s) =>
                  resp'[s] = "redirect" /\ UNCHANGED DemoCore
          /\ RoomTakesBad =>
                  /\ crResp'.code = IF crResp'.req.method # "POST" THEN "405"
                                    ELSE "redirect"
                  /\ UNCHANGED RoomCore]_vars
    /\ [](\A s \in Senders : spc[s] # "idle" => ~IsBad(sreq[s].req))

\* C19 witness: with a message in ChatDemo's log and in A's queue, the last
\* request, a POST with an empty text, got the redirect; and ChatRoom, with
\* a message in its log and in a subscriber's queue, answered a GET with 405.
C19_Witness ==
    /\ Len(messages) = 1 /\ Len(queue["A"]) = 1 /\ pending = {} /\ bcast = NoBcast
    /\ sreq["s1"].req = Req("POST", "alice", "") /\ resp["s1"] = "redirect"
    /\ spc["s1"] = "idle"
    /\ Len(crMessages) = 1 /\ crChans = 1 /\ Len(crQueue[1]) = 1
    /\ crResp = [req |-> Req("GET", "alice", "hi"), code |-> "405"]

\* C20: Context.Stream gives a StreamWriter only if streaming is enabled in
\* the configuration and the response writer can flush. On a connection
\* where it gave none the handler never registers a channel and writes no
\* streaming preamble (nor any other piece of the stream): its one write is
\* the static document, rendered from the log as it is at that step, and
\* the handler is done with what that write returned. On a connection
\* where it gave one, the first write is the streaming preamble.
C20_StreamFallback ==
    /\ [](\A p \in Pumps : flusher[p].called =>
            IF flusher[p].enabled /\ flusher[p].flush
            THEN writes[p] # <<>> /\ writes[p][1].kind = "preamble"
            ELSE /\ reg[p] = 0 /\ p \notin streamClients /\ queue[p] = <<>>
                 /\ Len(writes[p]) = 1 /\ writes[p][1].kind = "static"
                 /\ writes[p][1].seq = Len(snap[p]) /\ IsPrefix(snap[p], messages)
                 /\ ppc[p] = "done"
                 /\ ret[p] = IF writes[p][1].ok THEN "nil" ELSE "err")
    /\ [][\A p \in Pumps : (~flusher[p].called /\ flusher'[p].called) =>
            /\ flusher'[p].enabled = streamingEnabled
            /\ ~(flusher'[p].enabled /\ flusher'[p].flush) =>
                  snap'[p] = messages /\ UNCHANGED <<storeVars, streamClients, queue>>]_vars

\* C20 witness: streaming is enabled but A's response writer cannot flush;
\* A was served the static document of a log of one message, and a second
\* message was appended afterwards.
C20_Witness ==
    /\ streamingEnabled /\ flusher["A"] = Caps(TRUE, FALSE)
    /\ writes["A"] = <<W("static", 1, TRUE)>> /\ ret["A"] = "nil"
    /\ Len(snap["A"]) = 1 /\ Len(messages) = 2

\* C21: ChatRoom.Unsubscribe is idempotent. It can be called for any id in
\* any state and nothing ever panics; a call for an id the map does not
\* hold (never subscribed, or unsubscribed before) changes nothing at all;
\* and a channel is closed only in a step that removes the id holding it,
\* which closes an open channel and leaves the other ids, every queue and
\* the log as they are.
C21_UnsubscribeIdempotent ==
    /\ [](/\ ~crPanicked
          /\ \A i \in RoomIds :
                /\ ENABLED RoomUnsubscribe(i)
                /\ crSubscribers[i] = 0 =>
                      ~ENABLED (RoomUnsubscribe(i) /\ (crPanicked' \/ roomVars' # roomVars)))
    /\ [][crClosed' # crClosed =>
            \E i \in RoomIds :
                /\ crSubscribers[i] # 0 /\ crSubscribers[i] \notin crClosed
                /\ crClosed' = crClosed \cup {crSubscribers[i]}
                /\ crSubscribers' = [crSubscribers EXCEPT ![i] = 0]
                /\ UNCHANGED <<crQueue, crMessages, crChans>>]_vars

\* C21 witness: two connections subscribed under the same id and both ran
\* their deferred Unsubscribe: the first call closed the one channel the
\* map held, the second found no entry.
C21_Witness ==
    /\ cpc["k1"] = "done" /\ cpc["k2"] = "done" /\ cid["k1"] = cid["k2"]
    /\ Cardinality(crClosed) = 1 /\ crChans = 2 /\ ~crPanicked
    /\ \A i \in RoomIds : crSubscribers[i] = 0

\* C22: GetMessages returns a copy of the last min(n, 50) messages of a
\* log of n, in append order. The returned slice and the log do not alter
\* each other afterwards: every element the holder has not overwritten
\* still equals the log entry it was copied from, whatever was appended
\* since, and the log never holds anything but the appended messages, in
\* the order of their ids, whatever the holder wrote into the slice.
C22_DefensiveCopy ==
    /\ [](/\ Len(crView) <= RetainLast
          /\ crViewMeta.start > 0 => Len(crView) = RetainLast
          /\ crViewMeta.start + Len(crView) <= Len(crMessages)
          /\ \A j \in DOMAIN crView : j \notin crViewMeta.edited =>
                crView[j] = crMessages[crViewMeta.start + j]
          /\ \A i \in DOMAIN crMessages :
                crMessages[i].id = i /\ crMessages[i] # Edited)
    /\ [][(crViewMeta'.edited = {} /\ crMessages' = crMessages) =>
            /\ Len(crView') = (IF Len(crMessages) < RetainLast
                               THEN Len(crMessages) ELSE RetainLast)
            /\ \A j \in DOMAIN crView' :
                  crView'[j] = crMessages[Len(crMessages) - Len(crView') + j]]_vars

\* C22 witness: of a log of 51 messages the caller got the last 50, wrote
\* into the first and the last of them, and a 52nd message was added: the
\* second element of the slice is still the third message of the log.
C22_Witness ==
    /\ Len(crMessages) = RetainLast + 2 /\ Len(crView) = RetainLast
    /\ crViewMeta = [shared |-> FALSE, start |-> 1, edited |-> {1, RetainLast}]
    /\ crView[2] = crMessages[3] /\ crView[1] = Edited /\ crMessages[2].id = 2

\* C23 as claimed: in the SSE demo every client channel is closed at most
\* once, and no connection receives from its channel after it was closed.
C23_Original ==
    \A c \in SseConns : sseCloses[c] <= 1 /\ ~sseZero[c]

\* C24: the registry holds exactly the channels of the pumps that have
\* registered and whose cleanup has not yet deleted the entry; no channel
\* in the registry is closed; no queue holds more than ChanCap messages;
\* and once every pump has terminated the registry is empty and every
\* channel that was registered is closed.
C24_RegistryExact ==
    /\ streamClients = {p \in Pumps : reg[p] = unreg[p] + 1}
    /\ \A p \in Pumps :
          /\ p \in streamClients =>
                ~closed[p] /\ ppc[p] \in {"rlock", "snap", "wait", "cleanup"}
          /\ Len(queue[p]) <= ChanCap
          /\ closed[p] => ppc[p] = "done"
    /\ (\A p \in Pumps : ppc[p] = "done") =>
          streamClients = {} /\ \A p \in Pumps : closed[p] <=> reg[p] = 1

\* C24 witness: A's queue was filled to ChanCap and a message was dropped
\* on it; both pumps have terminated, A with the full queue left behind,
\* and the registry is empty.
C24_Witness ==
    /\ \A p \in Pumps : ppc[p] = "done" /\ reg[p] = 1
    /\ Len(queue["A"]) = ChanCap /\ \E m \in 1..Len(messages) : <<"A", m>> \in dropped
    /\ streamClients = {} /\ sendLog["B"] # <<>>

\* C25 as claimed: every channel gets the messages in the order of the log:
\* of two messages enqueued on a channel, the one appended first was
\* enqueued first (ChatDemo's channels and ChatRoom's).
C25_Original ==
    /\ \A p \in Pumps : \A i \in DOMAIN sendLog[p] : \A j \in DOMAIN sendLog[p] :
          i < j => sendLog[p][i] < sendLog[p][j]
    /\ \A c \in DOMAIN crQueue : IdsIncrease(crQueue[c])

\* The place of key u among the distinct keys of the log, in the order of
\* their first messages (0 if u has no message).
FirstAt(u) ==
    LET fk == FirstKeys(messages)
        at == {i \in DOMAIN fk : fk[i] = u}
    IN IF at = {} THEN 0 ELSE CHOOSE i \in at : TRUE

\* C26: colors follow the order of first appearance in the log. In every
\* state each message carries the palette color of its author's place
\* among the distinct authors of the log, colors[(i-1) mod 8] for the i-th;
\* a color is allocated only in the step that appends the first message of
\* a key, by the request that holds the store's exclusive lock, and it is
\* the color of the place the key takes in the log with that very step.
C26_ColorsFollowLog ==
    /\ [](\A m \in DOMAIN messages :
            messages[m].color = ((FirstAt(messages[m].key) - 1) % NumColors) + 1)
    /\ [][colorMap' # colorMap =>
            \E s \in Senders :
                /\ IsAppendBy(s) /\ mu.w = {s}
                /\ FirstAt(sreq[s].req.user) = 0
                /\ LET i == Len(FirstKeys(messages)) + 1
                   IN colorMap' = [colorMap EXCEPT ![sreq[s].req.user] =
                                                    ((i - 1) % NumColors) + 1]]_vars

\* C26 witness: the request of the second key appended first and the first
\* key's request after it, the first key then sent again, and a ninth
\* author took the first color again.
C26_Witness ==
    /\ Len(messages) >= 4
    /\ messages[1].key = KeyOrder[2] /\ messages[1].color = 1
    /\ messages[2].key = KeyOrder[1] /\ messages[2].color = 2
    /\ \E m \in 3..Len(messages) : messages[m].key = KeyOrder[1] /\ messages[m].color = 2
    /\ \E m \in 3..Len(messages) :
          FirstAt(messages[m].key) = NumColors + 1 /\ messages[m].color = 1

\* Whether connection h of the polling demo is inside one of the two loops
\* that run under mu.RLock.
InLoop(h) == poll[h].pc \in {"snap", "poll"}

\* C27: the read lock taken for the snapshot (and for a poll) is released
\* exactly once on every exit, the early return on a write error
\* included. In the polling demo a connection holds one read lock inside
\* its loops and none outside, and a step that leaves a loop lowers the
\* count by exactly one; in ChatDemo a pump holds the read lock in its
\* snapshot loop and nowhere else. So a terminated handler holds no store
\* lock, and when no handler is inside a loop the next append can take
\* the exclusive lock.
C27_ReadLockReleasedOnce ==
    /\ [](/\ \A h \in PollConns : pollMu.r[h] = (IF InLoop(h) THEN 1 ELSE 0)
          /\ ~pollMu.w
          /\ (\A h \in PollConns : ~InLoop(h)) => ENABLED PollSend(Len(pollLog) + 1)
          /\ \A p \in Pumps : /\ p \notin mu.w
                               /\ p \in mu.r <=> ppc[p] = "snap"
          /\ \A s \in Single :
                (spc[s] = "lock" /\ mu.w = {} /\ \A p \in Pumps : ppc[p] # "snap")
                    => ENABLED SendLock(s))
    /\ [][\A h \in PollConns :
            (InLoop(h) /\ ~InLoop(h)') => pollMu'.r[h] = pollMu.r[h] - 1]_vars

\* C27 witness: a connection of the polling demo returned from its snapshot
\* loop on a failed write, and a message was appended after that.
C27_Witness ==
    /\ poll["h1"].pc = "done" /\ poll["h1"].ret = "err"
    /\ pollOut["h1"] = <<[seq |-> 1, ok |-> FALSE]>>
    /\ pollMu.r["h1"] = 0
    /\ Len(pollLog) = 2

\* The messages connection h wrote to its stream without an error, in the
\* order of the writes.
RECURSIVE Delivered(_)
Delivered(out) ==
    IF out = <<>> THEN <<>>
    ELSE IF Head(out).ok THEN <<Head(out).seq>> \o Delivered(Tail(out))
    ELSE Delivered(Tail(out))

\* C28: delivery in the polling demo is exactly-once and in order. After
\* the snapshot and after every poll tick (the handler is between its
\* loops, or has ended on cancellation) the messages written to the stream
\* are exactly the first initialCount entries of the log, in log order,
\* and messagesSent = initialCount; inside a loop the written messages
\* are the first messagesSent entries of the log. No message is skipped
\* or written twice, whatever appends come between the polls.
C28_PollExactlyOnce ==
    \A h \in PollConns :
        /\ Delivered(pollOut[h]) = SubSeq(pollLog, 1, poll[h].sent)
        /\ poll[h].sent <= Len(pollLog)
        /\ (poll[h].pc \in {"form", "wait"} \/ poll[h].ret = "nil")
              => /\ poll[h].sent = poll[h].initial
                 /\ Delivered(pollOut[h]) = SubSeq(pollLog, 1, poll[h].initial)
                 /\ \A j \in 1..Len(pollOut[h]) : pollOut[h][j].ok
        /\ InLoop(h) => poll[h].sent = poll[h].i

\* C28 witness: the snapshot delivered the first message, a message was
\* appended, a poll delivered the second message, and a later poll found
\* nothing new.
C28_Witness ==
    /\ pollLog = <<1, 2>>
    /\ poll["h1"].pc = "poll" /\ poll["h1"].i = 2 /\ poll["h1"].cur = 2
    /\ poll["h1"].initial = 2 /\ poll["h1"].sent = 2
    /\ pollOut["h1"] = <<[seq |-> 1, ok |-> TRUE], [seq |-> 2, ok |-> TRUE]>>
    /\ poll["h2"].pc = "wait" /\ poll["h2"].initial = 1

\* Whether connection k has subscribed and has not yet unsubscribed.
Live(k) == cpc[k] \in {"loop", "spin"}

\* C29 as claimed: distinct live connections of ChatRoom hold distinct
\* registry entries. The map holds each live connection's own channel under
\* its id (no later Subscribe has replaced it), two live connections have
\* different ids, and the channel of a live connection is open (no other
\* connection's Unsubscribe has closed it).
C29_Original ==
    /\ \A k \in Conns :
          Live(k) => crSubscribers[cid[k]] = cchan[k] /\ cchan[k] \notin crClosed
    /\ \A k1, k2 \in Conns : (Live(k1) /\ Live(k2) /\ k1 # k2) => cid[k1] # cid[k2]

\* The requests from address a that were passed to the next handler and
\* whose time lies in the window that starts at the lastSeen recorded for a.
InWindow(a) ==
    {q \in RateReqs :
        /\ rl[q].called /\ rl[q].addr = a
        /\ visitors[a].lastSeen <= rl[q].now
        /\ rl[q].now <= visitors[a].lastSeen + RateDuration}

\* C30 as claimed: for each address with a visitor entry, at most
\* RateRequests requests of the window that starts at the recorded
\* lastSeen were passed to the next handler, and a request answered with
\* 429 did not call the next handler, also when requests from the same
\* address are handled concurrently.
C30_Original ==
    /\ \A a \in RateAddrs :
          visitors[a].present => Cardinality(InWindow(a)) <= RateRequests
    /\ \A q \in RateReqs : rl[q].resp = 429 => ~rl[q].called
====
